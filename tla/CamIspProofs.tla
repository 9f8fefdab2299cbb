---------------------------- MODULE CamIspProofs ----------------------------
(***************************************************************************)
(* Proofs about CamIsp: whatever the order of applies, flushes, interrupts *)
(* and errors, a request stays on one list until its fences are signaled,  *)
(* the manager asks for the head of the pending list, and a fence is       *)
(* signaled with success only for a buffer that the hardware filled.       *)
(*                                                                         *)
(* The invariant IspInv has a part for each relation of two pieces of      *)
(* state that these rest on.  There is one lemma per action, with a step   *)
(* per part.                                                               *)
(***************************************************************************)
EXTENDS CamIsp, FiniteSetTheorems, SequenceTheorems, WellFoundedInduction, TLAPS

\* A list in the order of the requests' ids, each once
Increasing(s) == \A i, j \in 1 .. Len(s) : i < j => s[i] < s[j]

-----------------------------------------------------------------------------
(* Lists of requests in the order of their ids                              *)

\* The least and the greatest of a set of requests, whose existence the CHOOSEs of the model need
LEMMA LeastNat ==
  ASSUME NEW T \in SUBSET Nat, T # {}
  PROVE  \E x \in T : \A y \in T : x <= y
<1>1. PICK x \in T : \A y \in T : <<y, x>> \notin OpToRel(<, Nat)
  BY NatLessThanWellFounded, WFMin, Zenon
<1>2. ASSUME NEW y \in T PROVE x <= y
  <2>1. ~(y < x)
    BY <1>1 DEF OpToRel
  <2> QED BY <2>1
<1> QED BY <1>1, <1>2

\* Ids of requests are positive numbers.
LEMMA ReqsNat == Reqs \subseteq Nat \ {0} /\ NoReq \notin Reqs /\ NoReq \in Nat
BY DEF Reqs, NoReq

\* A bounded set of numbers that is not empty has a greatest element.
LEMMA GreatestReq ==
  ASSUME NEW T \in SUBSET Nat, NEW n \in Nat, T # {}, \A x \in T : x <= n
  PROVE  \E x \in T : \A y \in T : y <= x
<1> DEFINE U == {n - x : x \in T}
<1>1. U \in SUBSET Nat /\ U # {}
  <2>1. \A x \in T : n - x \in Nat
    OBVIOUS
  <2> QED BY <2>1
<1>2. PICK u \in U : \A v \in U : u <= v
  BY <1>1, LeastNat
<1>3. PICK x \in T : u = n - x
  OBVIOUS
<1>4. ASSUME NEW y \in T PROVE y <= x
  <2>1. n - y \in U
    OBVIOUS
  <2> QED BY <1>2, <1>3, <2>1
<1> QED BY <1>4

\* The elements of a list, and its length
LEMMA ElemsOf ==
  ASSUME NEW s \in Seq(Reqs)
  PROVE  /\ Len(s) \in Nat /\ Elems(s) \in SUBSET Reqs
         /\ (s = <<>>) <=> (Elems(s) = {})
         /\ (s = <<>>) <=> (Len(s) = 0)
         /\ \A i \in 1 .. Len(s) : s[i] \in Elems(s) /\ s[i] \in Reqs
         /\ \A x \in Elems(s) : \E i \in 1 .. Len(s) : x = s[i]
<1>1. Len(s) \in Nat /\ ((s = <<>>) <=> (Len(s) = 0))
  OBVIOUS
<1>2. \A i \in 1 .. Len(s) : s[i] \in Elems(s) /\ s[i] \in Reqs
  BY DEF Elems
<1>3. \A x \in Elems(s) : \E i \in 1 .. Len(s) : x = s[i]
  BY DEF Elems
<1>4. (s = <<>>) <=> (Elems(s) = {})
  <2>1. s = <<>> => Elems(s) = {}
    BY <1>1 DEF Elems
  <2>2. s # <<>> => 1 \in 1 .. Len(s)
    BY <1>1
  <2> QED BY <1>2, <2>1, <2>2
<1> QED BY <1>1, <1>2, <1>3, <1>4

\* The empty list
LEMMA NoElems == <<>> \in Seq(Reqs) /\ Elems(<<>>) = {} /\ Increasing(<<>>) /\ Len(<<>>) = 0
BY DEF Elems, Increasing

\* In a list in order, the head is the least element, and the tail has the others.
LEMMA HeadTail ==
  ASSUME NEW s \in Seq(Reqs), Increasing(s), s # <<>>
  PROVE  /\ Head(s) \in Elems(s) /\ Head(s) \in Reqs
         /\ \A x \in Elems(s) : Head(s) <= x
         /\ Tail(s) \in Seq(Reqs) /\ Increasing(Tail(s))
         /\ Len(Tail(s)) = Len(s) - 1
         /\ Elems(Tail(s)) = Elems(s) \ {Head(s)}
<1>1. /\ Tail(s) \in Seq(Reqs) /\ Len(Tail(s)) = Len(s) - 1 /\ Len(s) \in Nat \ {0}
      /\ \A n \in 1 .. Len(s) - 1 : Tail(s)[n] = s[n + 1]
      /\ Head(s) = s[1]
  OBVIOUS
<1>2. \A i \in 1 .. Len(s) : s[i] \in Nat
  BY ElemsOf, ReqsNat
<1>3. \A i \in 1 .. Len(s) : i # 1 => s[1] < s[i]
  BY <1>1, <1>2 DEF Increasing
<1>4. Increasing(Tail(s))
  BY <1>1 DEF Increasing
<1>5. Head(s) \in Elems(s)
  BY <1>1 DEF Elems
<1>6. \A x \in Elems(s) : Head(s) <= x
  BY <1>1, <1>2, <1>3 DEF Elems
<1>7. Elems(Tail(s)) \subseteq Elems(s) \ {Head(s)}
  BY <1>1, <1>2, <1>3 DEF Elems
<1>8. ASSUME NEW x \in Elems(s) \ {Head(s)} PROVE x \in Elems(Tail(s))
  <2>1. PICK n \in 1 .. Len(s) : x = s[n]
    BY DEF Elems
  <2>2. n - 1 \in 1 .. Len(s) - 1 /\ Tail(s)[n - 1] = s[n]
    BY <1>1, <2>1
  <2> QED BY <1>1, <2>1, <2>2 DEF Elems
<1> QED BY <1>1, <1>2, <1>4, <1>5, <1>6, <1>7, <1>8

\* The least element of a list in order is its head.
LEMMA HeadIs ==
  ASSUME NEW s \in Seq(Reqs), Increasing(s), NEW r \in Elems(s), \A x \in Elems(s) : r <= x
  PROVE  s # <<>> /\ Head(s) = r
<1>1. s # <<>>
  BY ElemsOf
<1>2. Head(s) \in Elems(s) /\ Head(s) <= r /\ r <= Head(s)
  BY <1>1, HeadTail
<1>3. Head(s) \in Nat /\ r \in Nat
  BY <1>2, ElemsOf, ReqsNat
<1> QED BY <1>1, <1>2, <1>3

\* The last element of a list in order is the greatest.
LEMMA LastOf ==
  ASSUME NEW s \in Seq(Reqs), Increasing(s), s # <<>>
  PROVE  s[Len(s)] \in Elems(s) /\ \A x \in Elems(s) : x <= s[Len(s)]
<1>1. Len(s) \in Nat \ {0} /\ Len(s) \in 1 .. Len(s)
  BY ElemsOf
<1>2. \A i \in 1 .. Len(s) : s[i] \in Nat /\ (i < Len(s) => s[i] < s[Len(s)])
  BY <1>1, ElemsOf, ReqsNat DEF Increasing
<1> QED BY <1>1, <1>2 DEF Elems

\* list_add_tail of a greater request keeps the order.
LEMMA AppendList ==
  ASSUME NEW s \in Seq(Reqs), Increasing(s), NEW r \in Reqs, \A x \in Elems(s) : x < r
  PROVE  /\ Append(s, r) \in Seq(Reqs) /\ Increasing(Append(s, r))
         /\ Elems(Append(s, r)) = Elems(s) \cup {r}
         /\ Len(Append(s, r)) = Len(s) + 1 /\ Append(s, r) # <<>>
<1>1. /\ Append(s, r) \in Seq(Reqs) /\ Len(Append(s, r)) = Len(s) + 1 /\ Len(s) \in Nat
      /\ \A n \in 1 .. Len(s) : Append(s, r)[n] = s[n]
      /\ Append(s, r)[Len(s) + 1] = r
  OBVIOUS
<1>2. Elems(Append(s, r)) = Elems(s) \cup {r}
  BY <1>1 DEF Elems
<1>3. Increasing(Append(s, r))
  BY <1>1 DEF Elems, Increasing
<1> QED BY <1>1, <1>2, <1>3

\* list_add of a smaller request keeps the order.
LEMMA ConsList ==
  ASSUME NEW s \in Seq(Reqs), Increasing(s), NEW r \in Reqs, \A x \in Elems(s) : r < x
  PROVE  /\ <<r>> \o s \in Seq(Reqs) /\ Increasing(<<r>> \o s)
         /\ Elems(<<r>> \o s) = Elems(s) \cup {r}
         /\ Len(<<r>> \o s) = Len(s) + 1 /\ <<r>> \o s # <<>>
         /\ Head(<<r>> \o s) = r /\ Tail(<<r>> \o s) = s
<1> DEFINE t == <<r>> \o s
<1>1. /\ t \in Seq(Reqs) /\ Len(t) = Len(s) + 1 /\ Len(s) \in Nat
      /\ t[1] = r
      /\ \A n \in 2 .. Len(s) + 1 : t[n] = s[n - 1]
  <2>1. <<r>> \in Seq(Reqs) /\ Len(<<r>>) = 1 /\ <<r>>[1] = r
    OBVIOUS
  <2>2. /\ t \in Seq(Reqs) /\ Len(t) = 1 + Len(s) /\ Len(s) \in Nat
        /\ \A i \in 1 .. 1 + Len(s) : t[i] = IF i <= 1 THEN <<r>>[i] ELSE s[i - 1]
    BY <2>1, ConcatProperties
  <2> HIDE DEF t
  <2> QED BY <2>1, <2>2
<1>2. Head(t) = r /\ Tail(t) = s /\ t # <<>>
  <2> HIDE DEF t
  <2>1. t # <<>> /\ Head(t) = r
    BY <1>1
  <2>2. /\ Tail(t) \in Seq(Reqs) /\ Len(Tail(t)) = Len(s)
        /\ \A i \in 1 .. Len(s) : Tail(t)[i] = t[i + 1]
    BY <1>1, <2>1
  <2>3. \A i \in 1 .. Len(s) : Tail(t)[i] = s[i]
    BY <1>1, <2>2
  <2> QED BY <2>1, <2>2, <2>3, SeqEqual
<1> HIDE DEF t
<1>3. Elems(t) = Elems(s) \cup {r}
  <2>1. Elems(t) \subseteq Elems(s) \cup {r}
    BY <1>1 DEF Elems
  <2>2. r \in Elems(t)
    BY <1>1 DEF Elems
  <2>3. ASSUME NEW x \in Elems(s) PROVE x \in Elems(t)
    <3>1. PICK n \in 1 .. Len(s) : x = s[n]
      BY DEF Elems
    <3>2. n + 1 \in 1 .. Len(t) /\ t[n + 1] = s[n]
      BY <1>1
    <3> QED BY <3>1, <3>2 DEF Elems
  <2> QED BY <2>1, <2>2, <2>3
<1>4. Increasing(t)
  <2> SUFFICES ASSUME NEW i \in 1 .. Len(t), NEW j \in 1 .. Len(t), i < j PROVE t[i] < t[j]
    BY DEF Increasing
  <2>1. j - 1 \in 1 .. Len(s) /\ t[j] = s[j - 1]
    BY <1>1
  <2>2. CASE i = 1
    BY <1>1, <2>1, <2>2 DEF Elems
  <2>3. CASE i # 1
    <3>1. i - 1 \in 1 .. Len(s) /\ t[i] = s[i - 1] /\ i - 1 < j - 1
      BY <1>1, <2>3
    <3> QED BY <2>1, <3>1 DEF Increasing
  <2> QED BY <2>2, <2>3
<1> QED BY <1>1, <1>2, <1>3, <1>4 DEF t

\* list_del_init keeps the order of the others.
LEMMA WithoutList ==
  ASSUME NEW s \in Seq(Reqs), NEW r, Increasing(s)
  PROVE  /\ Without(s, r) \in Seq(Reqs) /\ Increasing(Without(s, r))
         /\ Elems(Without(s, r)) = Elems(s) \ {r}
         /\ r \notin Elems(s) => Without(s, r) = s
         /\ r \in Elems(s) => Len(Without(s, r)) = Len(s) - 1
<1>1. CASE r \notin Elems(s)
  BY <1>1 DEF Without
<1>2. CASE r \in Elems(s)
  <2> DEFINE k == CHOOSE n \in 1 .. Len(s) : s[n] = r
             a == SubSeq(s, 1, k - 1)
             b == SubSeq(s, k + 1, Len(s))
  <2>1. k \in 1 .. Len(s) /\ s[k] = r /\ Without(s, r) = a \o b
    <3>1. \E n \in 1 .. Len(s) : s[n] = r
      BY <1>2, ElemsOf
    <3> QED BY <1>2, <3>1 DEF Without
  <2> HIDE DEF k
  <2>0. Len(s) \in Nat /\ \A n \in 1 .. Len(s) : s[n] \in Reqs
    BY ElemsOf
  <2>2. /\ a \in Seq(Reqs) /\ Len(a) = k - 1
        /\ \A n \in 1 .. k - 1 : a[n] = s[n]
    <3>1. \A n \in 1 .. k - 1 : s[n] \in Reqs
      BY <2>0, <2>1
    <3> QED BY <2>0, <2>1, <3>1, SubSeqProperties
  <2>3. /\ b \in Seq(Reqs) /\ Len(b) = Len(s) - k
        /\ \A n \in 1 .. Len(s) - k : b[n] = s[k + n]
    <3>1. \A n \in k + 1 .. Len(s) : s[n] \in Reqs
      BY <2>0, <2>1
    <3>2. /\ b \in Seq(Reqs)
          /\ Len(b) = IF k + 1 <= Len(s) THEN Len(s) - (k + 1) + 1 ELSE 0
          /\ \A n \in 1 .. Len(s) - (k + 1) + 1 : b[n] = s[(k + 1) + n - 1]
      BY <2>0, <2>1, <3>1, SubSeqProperties
    <3>3. ASSUME NEW n \in 1 .. Len(s) - k PROVE b[n] = s[k + n]
      <4>1. n \in 1 .. Len(s) - (k + 1) + 1 /\ (k + 1) + n - 1 = k + n
        BY <2>0, <2>1
      <4> QED BY <3>2, <4>1
    <3>4. Len(b) = Len(s) - k
      BY <2>0, <2>1, <3>2
    <3> QED BY <3>2, <3>3, <3>4
  <2> HIDE DEF a, b
  <2> DEFINE w == a \o b
  <2>4. /\ w \in Seq(Reqs) /\ Len(w) = Len(s) - 1
        /\ \A n \in 1 .. Len(s) - 1 : w[n] = IF n < k THEN s[n] ELSE s[n + 1]
    <3>1. /\ w \in Seq(Reqs) /\ Len(w) = Len(a) + Len(b)
          /\ \A n \in 1 .. Len(a) + Len(b) : w[n] = IF n <= Len(a) THEN a[n] ELSE b[n - Len(a)]
      BY <2>2, <2>3, ConcatProperties
    <3>2. ASSUME NEW n \in 1 .. Len(s) - 1 PROVE w[n] = IF n < k THEN s[n] ELSE s[n + 1]
      <4>0. w[n] = IF n <= Len(a) THEN a[n] ELSE b[n - Len(a)]
        <5>1. Len(a) + Len(b) = Len(s) - 1
          BY <2>0, <2>1, <2>2, <2>3
        <5> QED BY <3>1, <5>1
      <4>1. CASE n < k
        <5>1. n \in 1 .. k - 1 /\ n <= Len(a)
          BY <2>0, <2>1, <2>2, <4>1
        <5> QED BY <2>2, <4>0, <4>1, <5>1
      <4>2. CASE ~(n < k)
        <5>1. n - (k - 1) \in 1 .. Len(s) - k /\ k + (n - (k - 1)) = n + 1
          BY <2>0, <2>1, <4>2
        <5>2. w[n] = b[n - (k - 1)]
          BY <2>0, <2>1, <2>2, <4>0, <4>2
        <5> QED BY <2>3, <4>2, <5>1, <5>2
      <4> QED BY <4>1, <4>2
    <3> QED BY <2>0, <2>1, <2>2, <2>3, <3>1, <3>2
  <2> HIDE DEF w
  <2>5. Increasing(w)
    <3> SUFFICES ASSUME NEW i \in 1 .. Len(s) - 1, NEW j \in 1 .. Len(s) - 1, i < j
                 PROVE  w[i] < w[j]
      BY <2>4 DEF Increasing
    <3> DEFINE up(n) == IF n < k THEN n ELSE n + 1
    <3>1. up(i) \in 1 .. Len(s) /\ up(j) \in 1 .. Len(s) /\ up(i) < up(j)
      BY <2>0, <2>1
    <3>2. w[i] = s[up(i)] /\ w[j] = s[up(j)]
      BY <2>4
    <3> QED BY <3>1, <3>2 DEF Increasing
  <2>6. ASSUME NEW x \in Elems(w) PROVE x \in Elems(s) \ {r}
    <3>1. PICK n \in 1 .. Len(s) - 1 : x = w[n]
      BY <2>4 DEF Elems
    <3>2. PICK m \in 1 .. Len(s) : m # k /\ x = s[m]
      <4>1. CASE n < k
        <5>1. n \in 1 .. Len(s) /\ n # k /\ x = s[n]
          BY <2>0, <2>1, <2>4, <3>1, <4>1
        <5> QED BY <5>1
      <4>2. CASE ~(n < k)
        <5>1. n + 1 \in 1 .. Len(s) /\ n + 1 # k /\ x = s[n + 1]
          BY <2>0, <2>1, <2>4, <3>1, <4>2
        <5> QED BY <5>1
      <4> QED BY <4>1, <4>2
    <3>3. x # r
      <4>1. m < k \/ k < m
        BY <2>1, <3>2
      <4>2. s[m] < s[k] \/ s[k] < s[m]
        BY <2>1, <3>2, <4>1 DEF Increasing
      <4>3. s[m] \in Nat /\ s[k] \in Nat
        BY <2>0, <2>1, ReqsNat
      <4> QED BY <2>1, <3>2, <4>2, <4>3
    <3> QED BY <3>2, <3>3 DEF Elems
  <2>7. ASSUME NEW x \in Elems(s) \ {r} PROVE x \in Elems(w)
    <3>1. PICK n \in 1 .. Len(s) : x = s[n]
      BY DEF Elems
    <3>2. CASE n < k
      <4>1. n \in 1 .. Len(s) - 1 /\ x = w[n]
        BY <2>0, <2>1, <2>4, <3>1, <3>2
      <4> QED BY <2>4, <4>1 DEF Elems
    <3>3. CASE n > k
      <4>1. n - 1 \in 1 .. Len(s) - 1 /\ ~(n - 1 < k) /\ (n - 1) + 1 = n
        BY <2>0, <2>1, <3>1, <3>3
      <4> QED BY <2>4, <3>1, <4>1 DEF Elems
    <3> QED BY <2>1, <3>1, <3>2, <3>3
  <2> QED BY <1>2, <2>1, <2>4, <2>5, <2>6, <2>7 DEF w
<1> QED BY <1>1, <1>2

\* __cam_isp_ctx_enqueue_request_in_order keeps the order.
LEMMA InsertList ==
  ASSUME NEW s \in Seq(Reqs), NEW r \in Reqs, Increasing(s), r \notin Elems(s)
  PROVE  /\ InOrder(s, r) \in Seq(Reqs) /\ Increasing(InOrder(s, r)) /\ InOrder(s, r) # <<>>
         /\ Elems(InOrder(s, r)) = Elems(s) \cup {r}
<1> DEFINE Place(n) == (n > 0 => s[n] <= r) /\ \A i \in n + 1 .. Len(s) : s[i] > r
           k == CHOOSE n \in 0 .. Len(s) : Place(n)
           a == SubSeq(s, 1, k)
           b == SubSeq(s, k + 1, Len(s))
<1>0. /\ Len(s) \in Nat /\ \A n \in 1 .. Len(s) : s[n] \in Reqs /\ s[n] # r /\ s[n] \in Nat
      /\ r \in Nat
  BY ElemsOf, ReqsNat
<1>1. \E n \in 0 .. Len(s) : Place(n)
  <2> DEFINE T == {n \in 1 .. Len(s) : s[n] <= r}
  <2>1. CASE T = {}
    <3>1. Place(0)
      BY <1>0, <2>1
    <3> QED BY <1>0, <3>1
  <2>2. CASE T # {}
    <3>1. T \in SUBSET Nat /\ \A n \in T : n <= Len(s)
      BY <1>0
    <3>2. PICK n \in T : \A m \in T : m <= n
      BY <1>0, <2>2, <3>1, GreatestReq
    <3>3. ASSUME NEW i \in n + 1 .. Len(s) PROVE s[i] > r
      <4>1. i \in 1 .. Len(s) /\ ~(i <= n)
        BY <1>0
      <4>2. ~(s[i] <= r)
        BY <3>2, <4>1
      <4> QED BY <1>0, <4>1, <4>2
    <3>4. Place(n) /\ n \in 0 .. Len(s)
      BY <1>0, <3>3
    <3> QED BY <3>4
  <2> QED BY <2>1, <2>2
<1>2. k \in 0 .. Len(s) /\ Place(k)
  BY <1>1
<1>3. InOrder(s, r) = (a \o <<r>>) \o b
  BY DEF InOrder
<1> HIDE DEF k
<1>4. \A i \in 1 .. k : s[i] < r
  <2> SUFFICES ASSUME NEW i \in 1 .. k PROVE s[i] < r
    OBVIOUS
  <2>1. k > 0 /\ k \in 1 .. Len(s) /\ i \in 1 .. Len(s) /\ (i = k \/ i < k)
    BY <1>0, <1>2
  <2>2. s[k] < r
    BY <1>0, <1>2, <2>1
  <2>3. i < k => s[i] < s[k]
    BY <2>1 DEF Increasing
  <2> QED BY <1>0, <2>1, <2>2, <2>3
<1>5. \A i \in k + 1 .. Len(s) : r < s[i]
  BY <1>0, <1>2
<1>6. a \in Seq(Reqs) /\ Len(a) = k /\ \A n \in 1 .. k : a[n] = s[n]
  <2>1. \A n \in 1 .. k : s[n] \in Reqs
    BY <1>0, <1>2
  <2> QED BY <1>0, <1>2, <2>1, SubSeqProperties
<1>7. /\ b \in Seq(Reqs) /\ Len(b) = Len(s) - k
      /\ \A n \in 1 .. Len(s) - k : b[n] = s[k + n]
  <2>1. \A n \in k + 1 .. Len(s) : s[n] \in Reqs
    BY <1>0, <1>2
  <2>2. /\ b \in Seq(Reqs)
        /\ Len(b) = IF k + 1 <= Len(s) THEN Len(s) - (k + 1) + 1 ELSE 0
        /\ \A n \in 1 .. Len(s) - (k + 1) + 1 : b[n] = s[(k + 1) + n - 1]
    BY <1>0, <1>2, <2>1, SubSeqProperties
  <2>3. ASSUME NEW n \in 1 .. Len(s) - k PROVE b[n] = s[k + n]
    <3>1. n \in 1 .. Len(s) - (k + 1) + 1 /\ (k + 1) + n - 1 = k + n
      BY <1>0, <1>2
    <3> QED BY <2>2, <3>1
  <2>4. Len(b) = Len(s) - k
    BY <1>0, <1>2, <2>2
  <2> QED BY <2>2, <2>3, <2>4
<1> HIDE DEF a, b
<1> DEFINE c == a \o <<r>>
<1>8. /\ c \in Seq(Reqs) /\ Len(c) = k + 1
      /\ \A n \in 1 .. k : c[n] = s[n]
      /\ c[k + 1] = r
  <2>1. <<r>> \in Seq(Reqs) /\ Len(<<r>>) = 1 /\ <<r>>[1] = r
    OBVIOUS
  <2>2. /\ c \in Seq(Reqs) /\ Len(c) = k + 1
        /\ \A n \in 1 .. k + 1 : c[n] = IF n <= k THEN a[n] ELSE <<r>>[n - k]
    BY <1>6, <2>1, ConcatProperties
  <2> HIDE DEF c
  <2>3. \A n \in 1 .. k : c[n] = s[n]
    BY <1>0, <1>2, <1>6, <2>2
  <2>4. c[k + 1] = r
    <3>1. k + 1 \in 1 .. k + 1 /\ ~(k + 1 <= k) /\ (k + 1) - k = 1
      BY <1>0, <1>2
    <3> QED BY <2>1, <2>2, <3>1
  <2> QED BY <2>2, <2>3, <2>4
<1> HIDE DEF c
<1> DEFINE w == c \o b
<1>9. /\ w \in Seq(Reqs) /\ Len(w) = Len(s) + 1
      /\ \A n \in 1 .. k : w[n] = s[n]
      /\ w[k + 1] = r
      /\ \A n \in k + 2 .. Len(s) + 1 : w[n] = s[n - 1]
  <2>1. /\ w \in Seq(Reqs) /\ Len(w) = (k + 1) + (Len(s) - k)
        /\ \A n \in 1 .. (k + 1) + (Len(s) - k) : w[n] = IF n <= k + 1 THEN c[n] ELSE b[n - (k + 1)]
    <3>1. /\ w \in Seq(Reqs) /\ Len(w) = Len(c) + Len(b)
          /\ \A n \in 1 .. Len(c) + Len(b) : w[n] = IF n <= Len(c) THEN c[n] ELSE b[n - Len(c)]
      BY <1>7, <1>8, ConcatProperties
    <3>2. Len(c) = k + 1 /\ Len(b) = Len(s) - k
      BY <1>7, <1>8
    <3> HIDE DEF w
    <3> QED BY <3>1, <3>2
  <2> HIDE DEF w
  <2>2. Len(w) = Len(s) + 1
    BY <1>0, <1>2, <2>1
  <2>3. ASSUME NEW n \in 1 .. k PROVE w[n] = s[n]
    <3>1. n \in 1 .. (k + 1) + (Len(s) - k) /\ n <= k + 1
      BY <1>0, <1>2
    <3> QED BY <1>8, <2>1, <3>1
  <2>4. w[k + 1] = r
    <3>1. k + 1 \in 1 .. (k + 1) + (Len(s) - k) /\ k + 1 <= k + 1
      BY <1>0, <1>2
    <3> QED BY <1>8, <2>1, <3>1
  <2>5. ASSUME NEW n \in k + 2 .. Len(s) + 1 PROVE w[n] = s[n - 1]
    <3>1. /\ n \in 1 .. (k + 1) + (Len(s) - k) /\ ~(n <= k + 1)
          /\ n - (k + 1) \in 1 .. Len(s) - k /\ k + (n - (k + 1)) = n - 1
      BY <1>0, <1>2
    <3> QED BY <1>7, <2>1, <3>1
  <2> QED BY <2>1, <2>2, <2>3, <2>4, <2>5
<1> HIDE DEF w
<1>10. Increasing(w)
  <2> SUFFICES ASSUME NEW i \in 1 .. Len(s) + 1, NEW j \in 1 .. Len(s) + 1, i < j
               PROVE  w[i] < w[j]
    BY <1>9 DEF Increasing
  <2>1. CASE j <= k
    <3>1. i \in 1 .. k /\ j \in 1 .. k /\ i \in 1 .. Len(s) /\ j \in 1 .. Len(s)
      BY <1>0, <1>2, <2>1
    <3> QED BY <1>9, <3>1 DEF Increasing
  <2>2. CASE j = k + 1
    <3>1. i \in 1 .. k
      BY <1>0, <1>2, <2>2
    <3> QED BY <1>4, <1>9, <2>2, <3>1
  <2>3. CASE j > k + 1
    <3>1. j \in k + 2 .. Len(s) + 1 /\ j - 1 \in k + 1 .. Len(s) /\ w[j] = s[j - 1] /\ j - 1 \in 1 .. Len(s)
      BY <1>0, <1>2, <1>9, <2>3
    <3>2. CASE i <= k
      <4>1. i \in 1 .. k /\ i \in 1 .. Len(s) /\ i < j - 1
        BY <1>0, <1>2, <2>3, <3>2
      <4> QED BY <1>9, <3>1, <4>1 DEF Increasing
    <3>3. CASE i = k + 1
      BY <1>5, <1>9, <3>1, <3>3
    <3>4. CASE i > k + 1
      <4>1. i \in k + 2 .. Len(s) + 1 /\ i - 1 \in 1 .. Len(s) /\ i - 1 < j - 1
        BY <1>0, <1>2, <3>4
      <4> QED BY <1>9, <3>1, <4>1 DEF Increasing
    <3> QED BY <1>0, <1>2, <3>2, <3>3, <3>4
  <2> QED BY <1>0, <1>2, <2>1, <2>2, <2>3
<1>11. Elems(w) \subseteq Elems(s) \cup {r}
  <2> SUFFICES ASSUME NEW n \in 1 .. Len(s) + 1 PROVE w[n] \in Elems(s) \cup {r}
    BY <1>9 DEF Elems
  <2>1. CASE n <= k
    <3>1. n \in 1 .. k /\ n \in 1 .. Len(s)
      BY <1>0, <1>2, <2>1
    <3> QED BY <1>9, <3>1, ElemsOf
  <2>2. CASE n = k + 1
    BY <1>9, <2>2
  <2>3. CASE n > k + 1
    <3>1. n \in k + 2 .. Len(s) + 1 /\ n - 1 \in 1 .. Len(s)
      BY <1>0, <1>2, <2>3
    <3> QED BY <1>9, <3>1, ElemsOf
  <2> QED BY <1>0, <1>2, <2>1, <2>2, <2>3
<1>12. ASSUME NEW x \in Elems(s) \cup {r} PROVE x \in Elems(w)
  <2>1. \A n \in 1 .. Len(s) + 1 : w[n] \in Elems(w)
    BY <1>9, ElemsOf
  <2>2. CASE x = r
    <3>1. k + 1 \in 1 .. Len(s) + 1
      BY <1>0, <1>2
    <3> QED BY <1>9, <2>1, <2>2, <3>1
  <2>3. CASE x # r
    <3>1. PICK n \in 1 .. Len(s) : x = s[n]
      BY <2>3, ElemsOf
    <3>2. CASE n <= k
      <4>1. n \in 1 .. k /\ n \in 1 .. Len(s) + 1
        BY <1>0, <1>2, <3>2
      <4> QED BY <1>9, <2>1, <3>1, <4>1
    <3>3. CASE n > k
      <4>1. n + 1 \in k + 2 .. Len(s) + 1 /\ n + 1 \in 1 .. Len(s) + 1 /\ (n + 1) - 1 = n
        BY <1>0, <1>2, <3>3
      <4>2. w[n + 1] = s[n]
        BY <1>9, <4>1
      <4> QED BY <2>1, <3>1, <4>1, <4>2
    <3> QED BY <1>0, <1>2, <3>2, <3>3
  <2> QED BY <2>2, <2>3
<1>13. w # <<>>
  BY <1>0, <1>9
<1> QED BY <1>3, <1>9, <1>10, <1>11, <1>12, <1>13 DEF w, c

\* A list of one or two requests
LEMMA ShortList ==
  ASSUME NEW s \in Seq(Reqs), Increasing(s), s # <<>>, Len(s) <= 2
  PROVE  /\ Elems(s) = {Head(s), s[Len(s)]}
         /\ Head(s) = s[Len(s)] <=> Len(s) = 1
<1>0. Len(s) \in Nat /\ Len(s) # 0 /\ \A i \in 1 .. Len(s) : s[i] \in Nat
  BY ElemsOf, ReqsNat
<1>1. Len(s) \in {1, 2} /\ Head(s) = s[1] /\ \A i \in 1 .. Len(s) : s[i] \in Nat
  <2>1. Head(s) = s[1]
    OBVIOUS
  <2>2. \A n \in Nat : n # 0 /\ n <= 2 => n \in {1, 2}
    OBVIOUS
  <2> QED BY <1>0, <2>1, <2>2
<1>2. CASE Len(s) = 1
  <2>1. 1 .. Len(s) = {1}
    BY <1>2
  <2>2. Elems(s) = {s[1]}
    BY <2>1 DEF Elems
  <2> QED BY <1>1, <1>2, <2>2
<1>3. CASE Len(s) = 2
  <2>1. s[1] < s[2] /\ 1 .. Len(s) = {1, 2}
    BY <1>3 DEF Increasing
  <2>2. Elems(s) = {s[1], s[2]}
    BY <2>1 DEF Elems
  <2> QED BY <1>1, <1>3, <2>1, <2>2
<1> QED BY <1>1, <1>2, <1>3

\* A list of one
LEMMA SingleList ==
  ASSUME NEW s \in Seq(Reqs), s # <<>>, Len(s) <= 1
  PROVE  Elems(s) = {Head(s)} /\ Tail(s) = <<>> /\ Increasing(s) /\ Head(s) \in Reqs /\ Len(s) = 1
<1>0. Len(s) \in Nat /\ Len(s) # 0 /\ \A i \in 1 .. Len(s) : s[i] \in Reqs
  BY ElemsOf
<1>1. Len(s) = 1 /\ s[1] \in Reqs /\ Head(s) = s[1]
  BY <1>0
<1>2. Increasing(s)
  BY <1>1 DEF Increasing
<1>3. Len(Tail(s)) = 0 /\ Tail(s) \in Seq(Reqs)
  BY <1>1
<1> QED BY <1>1, <1>2, <1>3, ElemsOf DEF Elems

-----------------------------------------------------------------------------
(* The invariant                                                            *)

\* The environment for which the code keeps its promises; without any one of these TLC finds
\* a counterexample.
Orderly == HwErrs # "any" /\ Prompt /\ Swift /\ QuietCancel /\ SameRecovery

P == Elems(list.pending)
W == Elems(list.wait)
A == Elems(list.active)
Before(S, T) == \A x \in S, y \in T : x < y

Applying == holder.op \in {"apply", "config"}
Flushing == holder.op = "flush"
Latching == isp.sub \in {"APPLIED", "BUBBLE_APPLIED"}

\* Requests whose configuration the hardware may have, but has not latched
Waits(r) == r \in W \/ (holder.op = "config" /\ holder.req = r)

\* The buffers of r that the hardware still fills, or will fill
Due(r) == {p \in req[r].out : hw.loaded = r \/ r \in Elems(hw.todo[p])}

\* A bubble that is to be recovered
Bubbled(r) == req[r].bubble /\ req[r].report

Subs == {"SOF", "APPLIED", "EPOCH", "BUBBLE", "BUBBLE_APPLIED", "HW_ERROR", "HALT"}

ReqType == [kind : {"none", "init", "update"}, out : SUBSET Ports, left : SUBSET Ports,
            ok : SUBSET Ports, filled : SUBSET Ports, acked : Nat,
            bubble : BOOLEAN, report : BOOLEAN, recover : BOOLEAN]

States == {"ACQUIRED", "READY", "ACTIVATED", "FLUSHED"}
CtxType == [sub : Subs, cnt : Int, process_bubble : BOOLEAN, frame_cnt : Nat,
            last_applied : Nat, last_flush : Nat]
ListsType == [pending : Seq(Reqs), wait : Seq(Reqs), active : Seq(Reqs)]
HolderType == [op : {"none", "apply", "config", "flush"}, req : Nat, sub : Subs \cup {"none"}]
HwType == [frame : BOOLEAN, cur : Nat, rup : BOOLEAN, loaded : Nat, todo : [Ports -> Seq(Reqs)]]
CrmType == [has : SUBSET Reqs, sent : Nat, back : Nat, fatal : BOOLEAN, trigger : BOOLEAN]

IspType ==
  /\ state \in States /\ isp \in CtxType /\ list \in ListsType /\ req \in [Reqs -> ReqType]
  /\ holder \in HolderType /\ hw \in HwType /\ crm \in CrmType
  /\ errs \in Nat

\* The lists are in the order of the requests' ids, and follow each other.
OrderInv ==
  /\ Increasing(list.pending) /\ Increasing(list.active)
  /\ Len(list.wait) <= 1 /\ Len(list.active) <= 2
  /\ Before(A, W) /\ Before(A, P) /\ Before(W, P)

\* What a state of the context says of the lists, and of the request manager
StateInv ==
  /\ ~Running => /\ list.active = <<>> /\ list.wait = <<>> /\ hw = IdleHw /\ holder = Nobody
                 /\ crm.sent = NoReq /\ crm.back = NoReq /\ ~crm.fatal /\ ~crm.trigger
  /\ state = "ACQUIRED" => list.pending = <<>> /\ crm.has = {}
  /\ state = "READY" => /\ list.pending # <<>> /\ req[Head(list.pending)].kind = "init"
                        /\ crm.has = P \ {Head(list.pending)}
  /\ state = "FLUSHED" => crm.has = {}
  /\ state \in {"ACTIVATED", "FLUSHED"} => \A x \in P : req[x].kind = "update"
  /\ \A x \in crm.has : req[x].kind = "update"
  /\ P \cup W \cup A \subseteq Taken

IdInv ==
  /\ state # "FLUSHED" => \A x \in P \cup W \cup A : x > isp.last_flush
  /\ isp.last_flush \in Taken \cup {NoReq}
  /\ \A x \in Reqs : req[x].kind = "init" => ~req[x].recover
  /\ \A x, y \in crm.has \cup W \cup A :
       req[x].kind = "update" /\ req[y].kind = "update" => req[x].recover = req[y].recover

HolderInv ==
  /\ holder = Nobody \/ (holder = Flusher /\ Running) \/ Applying
  /\ Applying => /\ Running /\ list.pending # <<>> /\ holder.req = Head(list.pending)
                 /\ holder.sub \in {"APPLIED", "BUBBLE_APPLIED"} /\ isp.sub \in {"SOF", "EPOCH", "BUBBLE"}
                 /\ ~isp.process_bubble /\ Len(list.active) <= 1 /\ list.wait = <<>> /\ ~crm.trigger
                 /\ req[holder.req].report = req[holder.req].recover

HwInv ==
  Running =>
  /\ crm.trigger \/ holder.op = "apply" => hw.loaded = NoReq /\ (hw.rup => isp.sub = "HW_ERROR")
  /\ \A r \in Reqs : Waits(r) => \/ hw.loaded = r /\ ~hw.rup
                                 \/ hw.loaded = NoReq /\ hw.frame /\ hw.cur = r
  /\ hw.rup => hw.frame /\ hw.loaded = NoReq
  /\ hw.loaded # NoReq /\ ~Waits(hw.loaded) => hw.loaded \in A /\ ~hw.frame /\ \A x \in A : x <= hw.loaded
  /\ \A p \in Ports : \A x \in Elems(hw.todo[p]) : (x \in A \/ Waits(x)) /\ p \in req[x].out /\ x # hw.loaded
  /\ \A p \in Ports : Increasing(hw.todo[p])

SubInv ==
  Running =>
  /\ isp.sub # "HALT"
  /\ isp.sub \in {"SOF", "HW_ERROR"} => list.active = <<>>
  /\ isp.sub = "HW_ERROR" => list.wait = <<>> /\ hw.rup
  /\ Latching => /\ list.wait # <<>> /\ req[Head(list.wait)].kind = "update" /\ Len(list.active) <= 1
                 /\ ~crm.trigger /\ ~Applying /\ ~isp.process_bubble
  /\ list.wait # <<>> /\ ~Latching =>
       /\ isp.sub = "SOF" /\ req[Head(list.wait)].kind = "init" /\ req[Head(list.wait)].out = {}
       /\ ~crm.trigger /\ ~Applying /\ (~hw.frame \/ hw.rup)
  /\ isp.cnt = Len(list.active)

BubbleInv ==
  Running =>
  /\ isp.process_bubble <=> \E x \in A : Bubbled(x)
  /\ \A x \in A : x <= isp.last_applied /\ (Bubbled(x) => x = isp.last_applied)
  /\ \A x \in W : x = isp.last_applied
  /\ isp.last_applied \in Taken
  /\ \A x \in A \cup W : req[x].kind = "update" => req[x].report = req[x].recover
  /\ \A x \in A : req[x].kind = "init" => ~req[x].bubble
  /\ isp.process_bubble => isp.sub = "BUBBLE" /\ list.wait = <<>> /\ (hw.frame => hw.loaded = NoReq)
  /\ isp.frame_cnt > 0 => isp.process_bubble /\ hw.loaded = NoReq /\ (hw.frame => hw.cur = NoReq)

\* Fences and acknowledgements
ReqInv ==
  /\ \A r \in Reqs : req[r].left \subseteq req[r].out /\ req[r].acked <= Cardinality(req[r].out)
  /\ \A r \in P \cup W : req[r].acked = 0 /\ req[r].left = req[r].out /\ ~req[r].bubble
  /\ \A r \in A : /\ req[r].acked + Cardinality(Due(r)) = Cardinality(req[r].out)
                  /\ req[r].left = IF Bubbled(r) THEN req[r].out ELSE Due(r)
                  /\ req[r].out # {} => Due(r) # {}
  /\ \A r \in Reqs : Waits(r) => Due(r) = req[r].out
  /\ \A r \in Taken : r \notin P \cup W \cup A => req[r].left = {}

\* The request manager knows what it sent, and asks for the pending ones.
CrmInv ==
  Running /\ ~Flushing =>
  /\ P \subseteq crm.has
  /\ \A x \in A \cup W : req[x].kind = "update" => x \in crm.has
  /\ crm.sent <= isp.last_applied
  /\ crm.back # NoReq => crm.back = isp.last_applied /\ crm.sent = crm.back
  /\ crm.back # NoReq /\ ~isp.process_bubble => list.pending # <<>> /\ Head(list.pending) = crm.back
  /\ crm.back = NoReq /\ ~isp.process_bubble =>
       \A x \in A \cup W : req[x].kind = "update" => x <= crm.sent
  /\ crm.back = NoReq /\ isp.process_bubble => crm.sent = isp.last_applied - 1
  /\ Latching => crm.sent = isp.last_applied
  /\ Applying \/ Latching => crm.back = NoReq

AheadInv ==
  Running /\ ~Flushing /\ ~crm.fatal =>
    Ahead = (P \cup (IF isp.process_bubble /\ crm.back = NoReq THEN {isp.last_applied} ELSE {}))
              \ (IF ~isp.process_bubble /\ crm.back # NoReq THEN {crm.back} ELSE {})

IspInv == /\ IspType /\ OrderInv /\ StateInv /\ IdInv /\ HolderInv /\ HwInv /\ SubInv /\ BubbleInv
          /\ ReqInv /\ CrmInv /\ AheadInv
-----------------------------------------------------------------------------

\* No request has the id 0.
LEMMA NoReqIs == NoReq = 0 /\ NoReq \notin Reqs /\ Reqs \subseteq Nat
BY ReqsNat DEF NoReq

\* What the three lists are, as sequences and as sets
LEMMA ListFacts ==
  ASSUME IspType, OrderInv
  PROVE  /\ list.pending \in Seq(Reqs) /\ list.wait \in Seq(Reqs) /\ list.active \in Seq(Reqs)
         /\ P \in SUBSET Reqs /\ W \in SUBSET Reqs /\ A \in SUBSET Reqs
         /\ list.pending = <<>> <=> P = {}
         /\ list.wait = <<>> <=> W = {}
         /\ list.active = <<>> <=> A = {}
         /\ list.pending # <<>> => Head(list.pending) \in P /\ \A x \in P : Head(list.pending) <= x
         /\ list.wait # <<>> => W = {Head(list.wait)} /\ Head(list.wait) \in Reqs /\ Tail(list.wait) = <<>>
         /\ list.active # <<>> => Head(list.active) \in A /\ \A x \in A : Head(list.active) <= x
         /\ \A x \in P : x \notin W /\ x \notin A
         /\ \A x \in W : x \notin A
<1>1. list.pending \in Seq(Reqs) /\ list.wait \in Seq(Reqs) /\ list.active \in Seq(Reqs)
  BY DEF IspType, ListsType
<1>2. P \in SUBSET Reqs /\ W \in SUBSET Reqs /\ A \in SUBSET Reqs
  BY <1>1, ElemsOf DEF P, W, A
<1>3. /\ list.pending = <<>> <=> P = {}
      /\ list.wait = <<>> <=> W = {}
      /\ list.active = <<>> <=> A = {}
  BY <1>1, ElemsOf DEF P, W, A
<1>4. list.pending # <<>> => Head(list.pending) \in P /\ \A x \in P : Head(list.pending) <= x
  BY <1>1, HeadTail DEF P, OrderInv
<1>5. list.wait # <<>> => W = {Head(list.wait)} /\ Head(list.wait) \in Reqs /\ Tail(list.wait) = <<>>
  BY <1>1, SingleList DEF W, OrderInv
<1>6. list.active # <<>> => Head(list.active) \in A /\ \A x \in A : Head(list.active) <= x
  BY <1>1, HeadTail DEF A, OrderInv
<1>7. /\ \A x \in P : x \notin W /\ x \notin A
      /\ \A x \in W : x \notin A
  BY <1>2, NoReqIs DEF OrderInv, Before
<1> QED BY <1>1, <1>2, <1>3, <1>4, <1>5, <1>6, <1>7

\* The context is created with empty lists.
LEMMA Start == Init => IspInv
<1> SUFFICES ASSUME Init PROVE IspInv
  OBVIOUS
<1>1. P = {} /\ W = {} /\ A = {} /\ state = "ACQUIRED" /\ ~Running
  BY NoElems DEF Init, EmptyLists, P, W, A, Running
<1>2. IspType
  BY NoElems, NoReqIs DEF Init, IspType, States, CtxType, ListsType, HolderType, HwType, CrmType,
     EmptyLists, Nobody, IdleHw, NoCrm, NewReq, ReqType, Subs
<1>3. OrderInv
  BY <1>1, NoElems DEF Init, OrderInv, EmptyLists, Before
<1>4. StateInv
  BY <1>1 DEF Init, StateInv, EmptyLists, NoCrm
<1>5. IdInv
  BY <1>1 DEF Init, IdInv, NoCrm, NewReq
<1>6. HolderInv
  BY <1>1 DEF Init, HolderInv, Applying, Nobody
<1>7. HwInv /\ SubInv /\ BubbleInv /\ CrmInv /\ AheadInv
  BY <1>1 DEF HwInv, SubInv, BubbleInv, CrmInv, AheadInv
<1>8. ReqInv
  <2>1. \A r \in Reqs : req[r] = NewReq /\ ~Waits(r)
    BY <1>1 DEF Init, Waits, Nobody
  <2>2. Taken = {}
    BY <2>1 DEF Taken, NewReq
  <2>3. Cardinality({}) = 0
    BY FS_EmptySet
  <2> QED BY <1>1, <2>1, <2>2, <2>3 DEF ReqInv, NewReq
<1> QED BY <1>2, <1>3, <1>4, <1>5, <1>6, <1>7, <1>8 DEF IspInv

\* A refused apply changes nothing but the trigger.
LEMMA RefusedStep == ASSUME IspInv, ApplyRefused PROVE IspInv'
<1>1. /\ crm'.has = crm.has /\ crm'.sent = crm.sent /\ crm'.back = crm.back /\ crm'.fatal = crm.fatal
      /\ crm'.trigger = FALSE
      /\ crm' \in CrmType
      /\ UNCHANGED <<state, isp, list, req, holder, hw, errs>>
  BY DEF ApplyRefused, IspInv, IspType, CrmType
<1>2. /\ P' = P /\ W' = W /\ A' = A /\ Running' = Running /\ Applying' = Applying /\ Flushing' = Flushing
      /\ Latching' = Latching /\ Ahead' = Ahead /\ Taken' = Taken
      /\ \A r : Waits(r)' = Waits(r) /\ Due(r)' = Due(r) /\ Bubbled(r)' = Bubbled(r)
  BY <1>1 DEF P, W, A, Running, Applying, Flushing, Latching, Ahead, Taken, Waits, Due, Bubbled
<1>3. IspType' BY <1>1 DEF IspInv, IspType
<1>4. OrderInv' BY <1>1, <1>2 DEF IspInv, OrderInv
<1>5. StateInv' BY <1>1, <1>2 DEF IspInv, StateInv
<1>6. IdInv' BY <1>1, <1>2 DEF IspInv, IdInv
<1>7. HolderInv' BY <1>1, <1>2 DEF IspInv, HolderInv
<1>8. HwInv' BY <1>1, <1>2 DEF IspInv, HwInv
<1>9. SubInv' BY <1>1, <1>2 DEF IspInv, SubInv
<1>10. BubbleInv' BY <1>1, <1>2 DEF IspInv, BubbleInv
<1>11. ReqInv' BY <1>1, <1>2 DEF IspInv, ReqInv
<1>12. CrmInv' BY <1>1, <1>2 DEF IspInv, CrmInv
<1>13. AheadInv' BY <1>1, <1>2 DEF IspInv, AheadInv
<1> QED BY <1>3, <1>4, <1>5, <1>6, <1>7, <1>8, <1>9, <1>10, <1>11, <1>12, <1>13 DEF IspInv

-----------------------------------------------------------------------------
(* The manager goes back; start fails; stop; the first half of a flush        *)

\* The manager goes back to the bubble, which is pending or still active.
LEMMA GoBackStep == ASSUME IspInv, GoBack PROVE IspInv'
<1> DEFINE r == isp.last_applied
<1>0. IspType /\ OrderInv
  BY DEF IspInv
<1>1. /\ crm'.has = crm.has /\ crm'.sent = crm.back - 1 /\ crm'.back = NoReq /\ crm'.fatal = crm.fatal
      /\ crm'.trigger = crm.trigger
      /\ crm' \in CrmType
      /\ UNCHANGED <<state, isp, list, req, holder, hw, errs>>
      /\ crm.back # NoReq /\ holder = Nobody
  <2>1. crm' = [crm EXCEPT !.sent = crm.back - 1, !.back = NoReq] /\ crm.back # NoReq
    BY DEF GoBack
  <2>2. crm.back - 1 \in Nat
    BY <1>0, <2>1, NoReqIs DEF IspType, CrmType
  <2>3. crm \in CrmType
    BY <1>0 DEF IspType
  <2>4. UNCHANGED <<state, isp, list, req, holder, hw, errs>> /\ holder = Nobody
    BY DEF GoBack
  <2> QED BY <2>1, <2>2, <2>3, <2>4, NoReqIs DEF CrmType
<1>2. /\ P' = P /\ W' = W /\ A' = A /\ Running' = Running /\ Applying' = Applying /\ Flushing' = Flushing
      /\ Latching' = Latching /\ Taken' = Taken
      /\ \A x : Waits(x)' = Waits(x) /\ Due(x)' = Due(x) /\ Bubbled(x)' = Bubbled(x)
  BY <1>1 DEF P, W, A, Running, Applying, Flushing, Latching, Taken, Waits, Due, Bubbled
<1>3. Running /\ ~Flushing /\ ~Applying /\ ~Latching
  BY <1>1 DEF IspInv, StateInv, CrmInv, Flushing, Applying, Nobody
<1>4. crm.back = r /\ crm.sent = r /\ r \in Nat
  BY <1>1, <1>3 DEF IspInv, CrmInv, IspType, CtxType
<1>5. isp.process_bubble => r \in A /\ r \in crm.has
  <2> SUFFICES ASSUME isp.process_bubble PROVE r \in A /\ r \in crm.has
    OBVIOUS
  <2>1. PICK x \in A : Bubbled(x)
    BY <1>3 DEF IspInv, BubbleInv
  <2>2. x = r /\ r \in A /\ req[r].kind # "init" /\ r \in Taken
    BY <1>3, <2>1 DEF IspInv, BubbleInv, Bubbled, StateInv
  <2>3. req[r].kind = "update"
    BY <1>0, <2>2 DEF IspType, ReqType, Taken
  <2> QED BY <1>3, <2>2, <2>3 DEF IspInv, CrmInv
<1>6. ~isp.process_bubble => list.pending # <<>> /\ Head(list.pending) = r /\ r \in P /\ r \in crm.has
  BY <1>0, <1>1, <1>3, <1>4, ListFacts DEF IspInv, CrmInv
<1>7. IspType' BY <1>1 DEF IspInv, IspType
<1>8. OrderInv' BY <1>1, <1>2 DEF IspInv, OrderInv
<1>9. StateInv' BY <1>1, <1>2, <1>3 DEF IspInv, StateInv
<1>10. IdInv' BY <1>1, <1>2 DEF IspInv, IdInv
<1>11. HolderInv' BY <1>1, <1>2 DEF IspInv, HolderInv
<1>12. HwInv' BY <1>1, <1>2 DEF IspInv, HwInv
<1>13. SubInv' BY <1>1, <1>2 DEF IspInv, SubInv
<1>14. BubbleInv' BY <1>1, <1>2 DEF IspInv, BubbleInv
<1>15. ReqInv' BY <1>1, <1>2 DEF IspInv, ReqInv
<1>16. CrmInv'
  <2>1. ASSUME ~isp.process_bubble, NEW x \in A \cup W PROVE x <= crm'.sent
    <3>1. x < r
      <4>1. x \in A => x < r
        BY <1>6, <2>1 DEF IspInv, OrderInv, Before
      <4>2. x \in W => x = r /\ x \notin P
        BY <1>0, <1>3, <2>1, ListFacts DEF IspInv, BubbleInv
      <4> QED BY <1>6, <2>1, <4>1, <4>2
    <3>2. x \in Nat
      BY <1>0, ListFacts, NoReqIs
    <3> QED BY <1>1, <1>4, <3>1, <3>2
  <2> QED BY <1>1, <1>2, <1>3, <1>4, <2>1 DEF IspInv, CrmInv
<1>17. AheadInv'
  <2> SUFFICES ASSUME ~crm.fatal
               PROVE  Ahead' = P \cup (IF isp.process_bubble THEN {r} ELSE {})
    BY <1>1, <1>2 DEF AheadInv
  <2>1. /\ Ahead = P \ (IF ~isp.process_bubble THEN {r} ELSE {})
        /\ Ahead = {x \in crm.has : x > r}
    BY <1>1, <1>3, <1>4 DEF IspInv, AheadInv, Ahead
  <2>2. \A x \in crm.has : x \in Nat /\ (x > r - 1 <=> x > r \/ x = r)
    BY <1>0, <1>4, NoReqIs DEF IspType, CrmType
  <2>3. Ahead' = {x \in crm.has : x > r - 1}
    BY <1>1, <1>4 DEF Ahead
  <2>4. r \in crm.has
    BY <1>5, <1>6
  <2>5. Ahead' = Ahead \cup {r}
    BY <2>1, <2>2, <2>3, <2>4
  <2> QED BY <1>6, <2>1, <2>5
<1> QED BY <1>7, <1>8, <1>9, <1>10, <1>11, <1>12, <1>13, <1>14, <1>15, <1>16, <1>17 DEF IspInv

-----------------------------------------------------------------------------

\* A failed start leaves the context ready.
LEMMA StartFailsStep == ASSUME IspInv, StartFails PROVE IspInv'
<1>0. IspType
  BY DEF IspInv
<1>1. /\ isp'.last_flush = isp.last_flush
      /\ isp' \in CtxType
      /\ UNCHANGED <<state, list, req, holder, hw, crm, errs>>
      /\ ~Running /\ holder = Nobody
  <2>1. Head(list.pending) \in Nat
    BY NoReqIs, ListFacts DEF StartFails, IspInv
  <2>2. PICK n \in {0, 1}, sub \in Subs :
          isp' = [isp EXCEPT !.last_applied = Head(list.pending), !.process_bubble = FALSE,
                             !.frame_cnt = 0, !.cnt = n, !.sub = sub]
    BY DEF StartFails, Subs
  <2>3. isp \in CtxType
    BY <1>0 DEF IspType
  <2>4. UNCHANGED <<state, list, req, holder, hw, crm, errs>> /\ ~Running /\ holder = Nobody
    BY DEF StartFails, Running
  <2>5. n \in Int /\ 0 \in Nat
    OBVIOUS
  <2> QED BY <2>1, <2>2, <2>3, <2>4, <2>5 DEF CtxType
<1>2. /\ P' = P /\ W' = W /\ A' = A /\ ~Running' /\ Applying' = Applying /\ Taken' = Taken
      /\ \A x : Waits(x)' = Waits(x) /\ Due(x)' = Due(x) /\ Bubbled(x)' = Bubbled(x)
      /\ ~Applying
  BY <1>1 DEF P, W, A, Running, Applying, Nobody, Taken, Waits, Due, Bubbled
<1>3. IspType' BY <1>1 DEF IspInv, IspType
<1>4. OrderInv' BY <1>1, <1>2 DEF IspInv, OrderInv
<1>5. StateInv' BY <1>1, <1>2 DEF IspInv, StateInv
<1>6. IdInv' BY <1>1, <1>2 DEF IspInv, IdInv
<1>7. HolderInv' BY <1>1, <1>2 DEF IspInv, HolderInv
<1>8. ReqInv' BY <1>1, <1>2 DEF IspInv, ReqInv
<1>9. HwInv' /\ SubInv' /\ BubbleInv' /\ CrmInv' /\ AheadInv'
  BY <1>2 DEF HwInv, SubInv, BubbleInv, CrmInv, AheadInv
<1> QED BY <1>3, <1>4, <1>5, <1>6, <1>7, <1>8, <1>9 DEF IspInv

\* Settling the fences of some requests changes nothing else of them.
LEMMA SettleIs ==
  ASSUME NEW q \in [Reqs -> ReqType], NEW S
  PROVE  /\ Settle(q, S) \in [Reqs -> ReqType]
         /\ \A r \in Reqs :
              /\ Settle(q, S)[r].left = IF r \in S THEN {} ELSE q[r].left
              /\ Settle(q, S)[r].kind = q[r].kind /\ Settle(q, S)[r].out = q[r].out
              /\ Settle(q, S)[r].ok = q[r].ok /\ Settle(q, S)[r].filled = q[r].filled
              /\ Settle(q, S)[r].acked = q[r].acked /\ Settle(q, S)[r].bubble = q[r].bubble
              /\ Settle(q, S)[r].report = q[r].report /\ Settle(q, S)[r].recover = q[r].recover
BY DEF Settle, ReqType

\* With no request on a list the fences of all are settled.
LEMMA StopStep == ASSUME IspInv, StopDev PROVE IspInv'
<1>0. IspType
  BY DEF IspInv
<1>1. /\ state' = "ACQUIRED" /\ holder' = holder /\ errs' = errs + 1
      /\ list' = EmptyLists /\ hw' = IdleHw /\ crm' = NoCrm
      /\ req' = Settle(req, OnLists) /\ holder = Nobody
      /\ isp'.last_flush = isp.last_flush
      /\ isp' \in CtxType
  <2>1. isp' = [isp EXCEPT !.sub = "HALT", !.cnt = 0, !.process_bubble = FALSE, !.frame_cnt = 0,
                           !.last_applied = NoReq]
    BY DEF StopDev
  <2>2. isp \in CtxType
    BY <1>0 DEF IspType
  <2>3. "HALT" \in Subs /\ 0 \in Int /\ 0 \in Nat /\ NoReq \in Nat
    BY NoReqIs DEF Subs
  <2>4. isp'.last_flush = isp.last_flush
    BY <2>1, <2>2 DEF CtxType
  <2>5. isp' \in CtxType
    BY <2>1, <2>2, <2>3 DEF CtxType
  <2> QED BY <2>4, <2>5 DEF StopDev
<1>2. /\ P' = {} /\ W' = {} /\ A' = {} /\ ~Running' /\ ~Applying'
      /\ \A x : ~Waits(x)'
  BY <1>1, NoElems DEF P, W, A, EmptyLists, Running, Applying, Nobody, Waits
<1>3. /\ req' \in [Reqs -> ReqType] /\ Taken' = Taken
      /\ \A x \in Reqs : /\ req'[x].left = IF x \in OnLists THEN {} ELSE req[x].left
                         /\ req'[x].out = req[x].out /\ req'[x].kind = req[x].kind
                         /\ req'[x].acked = req[x].acked /\ req'[x].recover = req[x].recover
  <2>1. req \in [Reqs -> ReqType]
    BY <1>0 DEF IspType
  <2> QED BY <1>1, <2>1, SettleIs DEF Taken
<1>4. OnLists = P \cup W \cup A
  BY DEF OnLists, P, W, A
<1>5. IspType' BY <1>0, <1>1, <1>3, NoElems, NoReqIs
    DEF IspType, States, ListsType, HwType, CrmType, EmptyLists, IdleHw, NoCrm
<1>6. OrderInv' BY <1>1, <1>2, NoElems DEF OrderInv, EmptyLists, Before
<1>7. StateInv' BY <1>1, <1>2 DEF StateInv, EmptyLists, NoCrm
<1>8. IdInv' BY <1>1, <1>2, <1>3 DEF IspInv, IdInv, NoCrm
<1>9. HolderInv' BY <1>1, <1>2 DEF HolderInv
<1>10. ReqInv' BY <1>1, <1>2, <1>3, <1>4 DEF IspInv, ReqInv, Taken
<1>11. HwInv' /\ SubInv' /\ BubbleInv' /\ CrmInv' /\ AheadInv'
  BY <1>2 DEF HwInv, SubInv, BubbleInv, CrmInv, AheadInv
<1> QED BY <1>5, <1>6, <1>7, <1>8, <1>9, <1>10, <1>11 DEF IspInv

\* A flush empties the pending list; interrupts may still come before its second half.
LEMMA FlushBeginStep == ASSUME IspInv, FlushBegin PROVE IspInv'
<1>0. IspType /\ OrderInv
  BY DEF IspInv
<1>1. /\ holder = Nobody /\ state \in {"ACQUIRED", "READY", "ACTIVATED"}
      /\ errs' = errs + 1 /\ hw' = hw
      /\ req' = Settle(req, P)
      /\ list' = [list EXCEPT !.pending = <<>>]
      /\ crm' = [NoCrm EXCEPT !.trigger = crm.trigger /\ state = "ACTIVATED"]
      /\ state = "ACTIVATED" => holder' = Flusher /\ state' = state /\ isp' = isp
      /\ state # "ACTIVATED" => holder' = holder /\ state' = "ACQUIRED"
  BY DEF FlushBegin, P
<1>2. /\ list'.pending = <<>> /\ list'.wait = list.wait /\ list'.active = list.active
      /\ list' \in ListsType
  BY <1>0, <1>1, NoElems DEF IspType, ListsType
<1>3. /\ crm'.has = {} /\ crm'.sent = NoReq /\ crm'.back = NoReq /\ crm'.fatal = FALSE
      /\ crm'.trigger => crm.trigger /\ Running
      /\ crm' \in CrmType
  BY <1>0, <1>1, NoReqIs DEF NoCrm, IspType, CrmType, Running
<1>4. /\ isp'.last_flush = isp.last_flush
      /\ isp' \in CtxType
  <2>1. isp' = isp \/ isp' = [isp EXCEPT !.frame_cnt = 0, !.process_bubble = FALSE]
    BY DEF FlushBegin
  <2>2. isp \in CtxType
    BY <1>0 DEF IspType
  <2>3. CASE isp' = isp BY <2>2, <2>3
  <2>4. CASE isp' = [isp EXCEPT !.frame_cnt = 0, !.process_bubble = FALSE]
    BY <2>2, <2>4 DEF CtxType
  <2> QED BY <2>1, <2>3, <2>4
<1>5. /\ P' = {} /\ W' = W /\ A' = A /\ Running' = Running /\ ~Applying' /\ ~Applying
      /\ \A x : Waits(x)' = Waits(x)
      /\ Running => Flushing' /\ Latching' = Latching
  BY <1>1, <1>2, NoElems DEF P, W, A, Running, Applying, Flushing, Nobody, Flusher, Waits, Latching
<1>6. /\ req' \in [Reqs -> ReqType] /\ Taken' = Taken
      /\ \A x \in Reqs :
           /\ req'[x].left = IF x \in P THEN {} ELSE req[x].left
           /\ req'[x].out = req[x].out /\ req'[x].kind = req[x].kind
           /\ req'[x].acked = req[x].acked /\ req'[x].bubble = req[x].bubble
           /\ req'[x].report = req[x].report /\ req'[x].recover = req[x].recover
           /\ Due(x)' = Due(x) /\ Bubbled(x)' = Bubbled(x)
  <2>1. req \in [Reqs -> ReqType]
    BY <1>0 DEF IspType
  <2> QED BY <1>1, <2>1, SettleIs DEF Taken, Due, Bubbled
<1>7. P \subseteq Reqs /\ W \subseteq Reqs /\ A \subseteq Reqs /\ Taken \subseteq Reqs
      /\ (list.wait # <<>> => Head(list.wait) \in Reqs)
      /\ \A x \in P : x \notin W /\ x \notin A
  BY <1>0, ListFacts DEF Taken
<1>8. IspType'
  <2>1. holder' \in HolderType
    BY <1>0, <1>1, NoReqIs DEF IspType, HolderType, Flusher
  <2>2. errs' \in Nat /\ state' \in States /\ hw' = hw
    BY <1>0, <1>1 DEF IspType, States
  <2>3. hw' \in HwType
    BY <1>0, <2>2 DEF IspType
  <2>4. isp' \in CtxType /\ list' \in ListsType /\ req' \in [Reqs -> ReqType] /\ crm' \in CrmType
    BY <1>2, <1>3, <1>4, <1>6
  <2> QED BY <2>1, <2>2, <2>3, <2>4 DEF IspType
<1>9. OrderInv' BY <1>0, <1>2, <1>5, NoElems DEF OrderInv, Before
<1>10. StateInv' BY <1>1, <1>2, <1>3, <1>5, <1>6 DEF IspInv, StateInv, Running
<1>11. IdInv' BY <1>1, <1>3, <1>4, <1>5, <1>6, <1>7 DEF IspInv, IdInv
<1>12. HolderInv' BY <1>1, <1>5 DEF HolderInv, Running
<1>13. HwInv'
  <2>1. CASE ~Running BY <1>5, <2>1 DEF HwInv
  <2>2. CASE Running
    <3>1. isp' = isp /\ hw' = hw /\ holder'.op = "flush"
      BY <1>1, <2>2 DEF Running, Flusher
    <3>2. \A p \in Ports : \A x \in Elems(hw.todo[p]) : x \in Reqs
      BY <1>0, ElemsOf DEF IspType, HwType
    <3> QED BY <1>3, <1>5, <1>6, <2>2, <3>1, <3>2 DEF IspInv, HwInv
  <2> QED BY <2>1, <2>2
<1>14. SubInv'
  <2>1. CASE ~Running BY <1>5, <2>1 DEF SubInv
  <2>2. CASE Running
    <3>1. isp' = isp /\ hw' = hw
      BY <1>1, <2>2 DEF Running
    <3>2. list.wait # <<>> => /\ req'[Head(list.wait)].kind = req[Head(list.wait)].kind
                              /\ req'[Head(list.wait)].out = req[Head(list.wait)].out
      BY <1>6, <1>7
    <3>3. SubInv
      BY DEF IspInv
    <3>4. Head(list'.wait) = Head(list.wait)
      BY <1>2
    <3> QED BY SMTT(60), <1>2, <1>3, <1>5, <2>2, <3>1, <3>2, <3>3, <3>4 DEF SubInv
  <2> QED BY <2>1, <2>2
<1>15. BubbleInv'
  <2>1. CASE ~Running BY <1>5, <2>1 DEF BubbleInv
  <2>2. CASE Running
    <3>1. isp' = isp /\ hw' = hw
      BY <1>1, <2>2 DEF Running
    <3> QED BY <1>2, <1>5, <1>6, <1>7, <2>2, <3>1 DEF IspInv, BubbleInv
  <2> QED BY <2>1, <2>2
<1>16. ReqInv' BY <1>5, <1>6, <1>7 DEF IspInv, ReqInv
<1>17. CrmInv' /\ AheadInv' BY <1>5 DEF CrmInv, AheadInv
<1> QED BY <1>8, <1>9, <1>10, <1>11, <1>12, <1>13, <1>14, <1>15, <1>16, <1>17 DEF IspInv

-----------------------------------------------------------------------------
(* The second half of a flush; cancel                                         *)

\* The other lists are flushed, also of what came back to pending in between.
LEMMA FlushEndStep == ASSUME IspInv, FlushEnd PROVE IspInv'
<1> DEFINE top == CHOOSE x \in Taken : \A r \in Taken : r <= x
<1>0. IspType /\ OrderInv
  BY DEF IspInv
<1>1. /\ holder = Flusher /\ holder' = Nobody /\ state' = "FLUSHED" /\ errs' = errs
      /\ req' = Settle(req, W \cup A)
      /\ list' = [list EXCEPT !.wait = <<>>, !.active = <<>>]
      /\ hw' = IdleHw /\ crm' = NoCrm
      /\ isp' = [isp EXCEPT !.sub = "HALT", !.cnt = 0, !.process_bubble = FALSE, !.frame_cnt = 0,
                            !.last_flush = top]
  BY DEF FlushEnd, W, A
<1>2. Running /\ state = "ACTIVATED"
  BY <1>1 DEF IspInv, HolderInv, Applying, Flusher, Nobody, Running
<1>3. top \in Taken /\ top \in Nat
  <2>1. isp.last_applied \in Taken /\ Taken \in SUBSET Nat /\ MaxReq \in Nat /\ \A x \in Taken : x <= MaxReq
    BY <1>2, NoReqIs, IspAssumption DEF IspInv, BubbleInv, Taken, Reqs
  <2>2. \E x \in Taken : \A y \in Taken : y <= x
    BY <2>1, GreatestReq
  <2> QED BY <2>1, <2>2
<1> HIDE DEF top
<1>4. isp'.last_flush = top /\ isp' \in CtxType
  <2>1. isp \in CtxType /\ "HALT" \in Subs /\ 0 \in Nat /\ 0 \in Int
    BY <1>0 DEF IspType, Subs
  <2> QED BY <1>1, <1>3, <2>1 DEF CtxType
<1>5. /\ list'.pending = list.pending /\ list'.wait = <<>> /\ list'.active = <<>>
      /\ list' \in ListsType
  BY <1>0, <1>1, NoElems DEF IspType, ListsType
<1>6. /\ P' = P /\ W' = {} /\ A' = {} /\ ~Running' /\ ~Applying'
      /\ \A x : ~Waits(x)'
  BY <1>1, <1>5, NoElems DEF P, W, A, Running, Applying, Nobody, Waits
<1>7. /\ req' \in [Reqs -> ReqType] /\ Taken' = Taken
      /\ \A x \in Reqs :
           /\ req'[x].left = IF x \in W \cup A THEN {} ELSE req[x].left
           /\ req'[x].out = req[x].out /\ req'[x].kind = req[x].kind
           /\ req'[x].acked = req[x].acked /\ req'[x].bubble = req[x].bubble
           /\ req'[x].recover = req[x].recover
  <2>1. req \in [Reqs -> ReqType]
    BY <1>0 DEF IspType
  <2> QED BY <1>1, <2>1, SettleIs DEF Taken
<1>8. P \subseteq Reqs /\ W \subseteq Reqs /\ A \subseteq Reqs /\ Taken \subseteq Reqs
      /\ \A x \in P : x \notin W /\ x \notin A
  BY <1>0, ListFacts DEF Taken
<1>9. IspType'
  <2>1. holder' \in HolderType /\ hw' \in HwType /\ crm' \in CrmType
    BY <1>1, NoReqIs, NoElems DEF HolderType, HwType, CrmType, Nobody, IdleHw, NoCrm
  <2>2. errs' \in Nat /\ state' \in States
    BY <1>0, <1>1 DEF IspType, States
  <2> QED BY <1>4, <1>5, <1>7, <2>1, <2>2 DEF IspType
<1>10. OrderInv' BY <1>0, <1>5, <1>6, NoElems DEF OrderInv, Before
<1>11. StateInv' BY <1>1, <1>2, <1>5, <1>6, <1>7, <1>8 DEF IspInv, StateInv, NoCrm
<1>12. IdInv'
  <2>1. crm'.has = {} /\ IdInv BY <1>1 DEF NoCrm, IspInv
  <2>2. state' = "FLUSHED" /\ isp'.last_flush \in Taken' \cup {NoReq}
    BY <1>1, <1>3, <1>4, <1>7
  <2>3. \A x \in Reqs : req'[x].kind = "init" => ~req'[x].recover
    BY <1>7, <2>1 DEF IdInv
  <2> QED BY <1>6, <2>1, <2>2, <2>3 DEF IdInv
<1>13. HolderInv' BY <1>1, <1>6 DEF HolderInv
<1>14. ReqInv' BY <1>6, <1>7, <1>8 DEF IspInv, ReqInv
<1>15. HwInv' /\ SubInv' /\ BubbleInv' /\ CrmInv' /\ AheadInv'
  BY <1>6 DEF HwInv, SubInv, BubbleInv, CrmInv, AheadInv
<1> QED BY <1>9, <1>10, <1>11, <1>12, <1>13, <1>14, <1>15 DEF IspInv

-----------------------------------------------------------------------------

\* The pending list without a request
LEMMA WithoutPending ==
  ASSUME IspType, OrderInv, NEW r
  PROVE  /\ Without(list.pending, r) \in Seq(Reqs) /\ Increasing(Without(list.pending, r))
         /\ Elems(Without(list.pending, r)) = P \ {r}
         /\ list.pending # <<>> /\ r # Head(list.pending) =>
              Without(list.pending, r) # <<>> /\ Head(Without(list.pending, r)) = Head(list.pending)
<1> DEFINE s == Without(list.pending, r)
<1>1. s \in Seq(Reqs) /\ Increasing(s) /\ Elems(s) = P \ {r}
  BY WithoutList, ListFacts DEF OrderInv, P
<1> HIDE DEF s
<1>2. ASSUME list.pending # <<>>, r # Head(list.pending)
      PROVE  s # <<>> /\ Head(s) = Head(list.pending)
  <2>1. Head(list.pending) \in Elems(s) /\ \A x \in Elems(s) : Head(list.pending) <= x
    BY <1>1, <1>2, ListFacts
  <2> QED BY <1>1, <2>1, HeadIs
<1> QED BY <1>1, <1>2 DEF s

\* A cancelled request is one the manager has not sent, and so pending or not there.
LEMMA CancelStep == ASSUME IspInv, Orderly, NEW r \in Reqs, Cancel(r) PROVE IspInv'
<1> DEFINE h == Head(list.pending)
<1>0. IspType /\ OrderInv
  BY DEF IspInv
<1>1. /\ holder = Nobody /\ state \in {"READY", "ACTIVATED"} /\ ~isp.process_bubble
      /\ r \in crm.has /\ r > crm.sent
      /\ list' = [list EXCEPT !.pending = Without(list.pending, r)]
      /\ req' = IF r \in P THEN Settle(req, {r}) ELSE req
      /\ crm' = [crm EXCEPT !.has = crm.has \ {r}]
      /\ state' = IF state = "READY" /\ list'.pending = <<>> THEN "ACQUIRED" ELSE state
      /\ isp' = IF state = "READY" THEN isp ELSE [isp EXCEPT !.frame_cnt = 0, !.process_bubble = FALSE]
      /\ errs' = errs + 1 /\ holder' = holder /\ hw' = hw
  BY DEF Cancel, Orderly, Ahead, P
<1>2. /\ list'.pending = Without(list.pending, r) /\ list'.wait = list.wait /\ list'.active = list.active
      /\ list' \in ListsType /\ Increasing(list'.pending) /\ P' = P \ {r}
  BY <1>0, <1>1, WithoutPending DEF IspType, ListsType, P
<1>3. /\ crm'.has = crm.has \ {r} /\ crm'.sent = crm.sent /\ crm'.back = crm.back
      /\ crm'.fatal = crm.fatal /\ crm'.trigger = crm.trigger /\ crm' \in CrmType
  BY <1>0, <1>1 DEF IspType, CrmType
<1>4. /\ isp' \in CtxType /\ isp'.last_flush = isp.last_flush /\ isp'.last_applied = isp.last_applied
      /\ isp'.sub = isp.sub /\ isp'.cnt = isp.cnt /\ ~isp'.process_bubble
      /\ state # "READY" => isp'.frame_cnt = 0
  BY <1>0, <1>1 DEF IspType, CtxType
<1>5. list.pending # <<>> /\ r # h => list'.pending # <<>> /\ Head(list'.pending) = h
  BY <1>0, <1>2, WithoutPending
<1>6. /\ req' \in [Reqs -> ReqType] /\ Taken' = Taken
      /\ \A x \in Reqs :
           /\ req'[x].left = IF x = r /\ r \in P THEN {} ELSE req[x].left
           /\ req'[x].out = req[x].out /\ req'[x].kind = req[x].kind
           /\ req'[x].acked = req[x].acked /\ req'[x].bubble = req[x].bubble
           /\ req'[x].report = req[x].report /\ req'[x].recover = req[x].recover
           /\ (Due(x)' = Due(x)) /\ (Bubbled(x)' <=> Bubbled(x))
  <2>1. req \in [Reqs -> ReqType]
    BY <1>0 DEF IspType
  <2>2. CASE r \in P
    BY <1>1, <2>1, <2>2, SettleIs DEF Taken, Due, Bubbled
  <2>3. CASE r \notin P
    BY <1>1, <2>1, <2>3 DEF Taken, Due, Bubbled
  <2> QED BY <2>2, <2>3
<1>7. P \subseteq Reqs /\ W \subseteq Reqs /\ A \subseteq Reqs /\ Taken \subseteq Reqs
      /\ (list.wait # <<>> => Head(list.wait) \in W)
      /\ (list.pending # <<>> => h \in P)
      /\ \A x \in P : x \notin W /\ x \notin A
  BY <1>0, ListFacts DEF Taken
<1>8. state = "READY" => list.pending # <<>> /\ r # h /\ list'.pending # <<>> /\ Head(list'.pending) = h
  <2>1. state = "READY" => list.pending # <<>> /\ r # h
    BY <1>1 DEF IspInv, StateInv
  <2> QED BY <1>5, <2>1
<1>9. /\ W' = W /\ A' = A /\ state' = state /\ (Running' <=> Running) /\ ~Applying' /\ ~Applying
      /\ ~Flushing' /\ ~Flushing /\ (Latching' <=> Latching)
      /\ \A x : Waits(x)' <=> Waits(x)
  BY <1>1, <1>2, <1>4, <1>8 DEF W, A, Running, Applying, Flushing, Nobody, Waits, Latching
<1>10. Running => /\ \A x \in A \cup W : req[x].kind = "update" => x # r
                  /\ crm.back # NoReq => list.pending # <<>> /\ r # h /\ h = crm.back
                  /\ isp.frame_cnt = 0
  <2> SUFFICES ASSUME Running
               PROVE  /\ \A x \in A \cup W : req[x].kind = "update" => x # r
                      /\ crm.back # NoReq => list.pending # <<>> /\ r # h /\ h = crm.back
                      /\ isp.frame_cnt = 0
    OBVIOUS
  <2>1. r \in Nat /\ crm.sent \in Nat
    BY <1>0, NoReqIs DEF IspType, CrmType
  <2>2. crm.back # NoReq => list.pending # <<>> /\ r # h /\ h = crm.back /\ crm.sent = isp.last_applied
    BY <1>1, <1>9, <2>1 DEF IspInv, CrmInv
  <2>3. ASSUME NEW x \in A \cup W, req[x].kind = "update" PROVE x # r
    <3>1. crm.back = NoReq => x <= crm.sent
      BY <1>1, <1>9, <2>3 DEF IspInv, CrmInv
    <3>2. x <= isp.last_applied
      <4>1. x \in Nat /\ (x \in A => x <= isp.last_applied) /\ (x \in W => x = isp.last_applied)
        BY <1>7, NoReqIs DEF IspInv, BubbleInv
      <4> QED BY <4>1
    <3> QED BY <1>1, <2>1, <2>2, <3>1, <3>2
  <2>4. isp.frame_cnt = 0
    BY <1>0, <1>1 DEF IspInv, BubbleInv, IspType, CtxType
  <2> QED BY <2>2, <2>3, <2>4
<1>11. IspType'
  <2>1. errs' \in Nat /\ state' \in States /\ holder' \in HolderType /\ hw' \in HwType
    BY <1>0, <1>1, <1>9 DEF IspType
  <2> QED BY <1>2, <1>3, <1>4, <1>6, <2>1 DEF IspType
<1>12. OrderInv' BY <1>0, <1>2, <1>9 DEF OrderInv, Before
<1>13. StateInv'
  <2>0. StateInv /\ crm.has \subseteq Reqs BY <1>0 DEF IspInv, IspType, CrmType
  <2>1. ~Running' => /\ list'.active = <<>> /\ list'.wait = <<>> /\ hw' = IdleHw /\ holder' = Nobody
                     /\ crm'.sent = NoReq /\ crm'.back = NoReq /\ ~crm'.fatal /\ ~crm'.trigger
    BY <1>1, <1>2, <1>3, <1>9, <2>0 DEF StateInv
  <2>2. state' = "READY" => /\ list'.pending # <<>> /\ req'[Head(list'.pending)].kind = "init"
                            /\ crm'.has = P' \ {Head(list'.pending)}
    BY <1>2, <1>3, <1>6, <1>7, <1>8, <1>9, <2>0 DEF StateInv
  <2>3. \A x \in crm'.has : req'[x].kind = "update"
    BY <1>3, <1>6, <2>0 DEF StateInv
  <2>4. state' = "ACTIVATED" => \A x \in P' : req'[x].kind = "update"
    BY <1>2, <1>6, <1>7, <1>9, <2>0 DEF StateInv
  <2>5. (P \cup W \cup A)' \subseteq Taken'
    BY <1>2, <1>6, <1>9, <2>0 DEF StateInv
  <2> QED BY <1>1, <1>9, <2>1, <2>2, <2>3, <2>4, <2>5 DEF StateInv
<1>14. IdInv'
  <2>1. IdInv /\ crm.has \subseteq Reqs BY <1>0 DEF IspInv, IspType, CrmType
  <2> QED BY <1>2, <1>3, <1>4, <1>6, <1>7, <1>9, <2>1 DEF IdInv
<1>15. HolderInv' BY <1>1, <1>9 DEF HolderInv
<1>16. HwInv'
  <2>1. \A p \in Ports : \A x \in Elems(hw.todo[p]) : x \in Reqs
    BY <1>0, ElemsOf DEF IspType, HwType
  <2>2. HwInv BY DEF IspInv
  <2> QED BY <1>1, <1>3, <1>4, <1>6, <1>9, <2>1, <2>2, ZenonT(60) DEF HwInv
<1>17. SubInv'
  <2>1. list.wait # <<>> => /\ req'[Head(list.wait)].kind = req[Head(list.wait)].kind
                            /\ req'[Head(list.wait)].out = req[Head(list.wait)].out
    BY <1>6, <1>7
  <2>2. SubInv BY DEF IspInv
  <2> QED BY <1>1, <1>2, <1>3, <1>4, <1>9, <2>1, <2>2 DEF SubInv
<1>18. BubbleInv'
  <2>1. BubbleInv BY DEF IspInv
  <2>2. \A x \in A \cup W : x \in Reqs
    BY <1>7
  <2>3. ASSUME Running PROVE \A x \in A : ~Bubbled(x)
    BY <1>1, <2>1, <2>3 DEF BubbleInv
  <2>4. CASE ~Running BY <1>9, <2>4 DEF BubbleInv
  <2>5. CASE Running
    <3>1. /\ \A x \in A : x <= isp.last_applied /\ ~Bubbled(x)'
          /\ \A x \in W : x = isp.last_applied
          /\ isp.last_applied \in Taken'
      BY <1>6, <1>7, <2>1, <2>3, <2>5 DEF BubbleInv
    <3>2. /\ \A x \in A \cup W : req'[x].kind = "update" => req'[x].report = req'[x].recover
          /\ \A x \in A : req'[x].kind = "init" => ~req'[x].bubble
      BY <1>6, <2>1, <2>2, <2>5 DEF BubbleInv
    <3>3. isp'.frame_cnt = 0 /\ ~isp'.process_bubble
      BY <1>1, <1>4, <2>5 DEF Running
    <3> QED BY <1>4, <1>9, <3>1, <3>2, <3>3 DEF BubbleInv
  <2> QED BY <2>4, <2>5
<1>19. ReqInv'
  <2>1. ReqInv BY DEF IspInv
  <2> QED BY <1>2, <1>6, <1>7, <1>9, <2>1 DEF ReqInv
<1>20. CrmInv'
  <2>1. CrmInv BY DEF IspInv
  <2> QED BY <1>1, <1>2, <1>3, <1>4, <1>5, <1>6, <1>7, <1>9, <1>10, <2>1, ZenonT(60) DEF CrmInv
<1>21. AheadInv'
  <2>1. Ahead' = Ahead \ {r}
    BY <1>3 DEF Ahead
  <2>2. AheadInv BY DEF IspInv
  <2> QED BY <1>1, <1>2, <1>3, <1>4, <1>9, <1>10, <2>1, <2>2 DEF AheadInv
<1> QED BY <1>11, <1>12, <1>13, <1>14, <1>15, <1>16, <1>17, <1>18, <1>19, <1>20, <1>21 DEF IspInv

-----------------------------------------------------------------------------
(* Apply: the checks, and the configuration                                   *)

\* The manager asks for the least request it has not sent.
LEMMA AskedIs ==
  ASSUME IspType, Ahead # {}
  PROVE  Asked \in Ahead /\ Asked \in Reqs /\ \A x \in Ahead : Asked <= x
<1>1. Ahead \in SUBSET Nat /\ Ahead \subseteq Reqs
  BY NoReqIs DEF Ahead, IspType, CrmType
<1>2. \E r \in Ahead : \A x \in Ahead : r <= x
  BY <1>1, LeastNat
<1> QED BY <1>1, <1>2 DEF Asked

\* An apply that passes the checks holds the head of the pending list.
LEMMA ApplyBeginStep == ASSUME IspInv, ApplyBegin PROVE IspInv'
<1> DEFINE h == Head(list.pending)
<1>0. IspType /\ OrderInv
  BY DEF IspInv
<1>1. /\ holder = Nobody /\ state = "ACTIVATED" /\ crm.trigger
      /\ Ahead # {} /\ isp.sub \in {"SOF", "EPOCH", "BUBBLE"} /\ list.pending # <<>>
      /\ ~isp.process_bubble /\ h = Asked /\ isp.cnt < 2
      /\ holder'.op = "apply" /\ holder'.req = h /\ holder'.sub \in {"APPLIED", "BUBBLE_APPLIED"}
      /\ holder' \in HolderType
      /\ req' = [req EXCEPT ![h].report = req[h].recover]
      /\ crm' = [crm EXCEPT !.trigger = FALSE]
      /\ UNCHANGED <<state, isp, list, hw, errs>>
  <2>1. h = Asked /\ isp.sub \in {"SOF", "EPOCH", "BUBBLE"} /\ h \in Nat
    <3>1. isp.sub \in DOMAIN Applies /\ h = Asked /\ list.pending # <<>>
      BY DEF ApplyBegin, ApplyTaken
    <3>2. DOMAIN Applies = {"SOF", "EPOCH", "BUBBLE"}
      BY DEF Applies
    <3> QED BY <1>0, <3>1, <3>2, ListFacts, NoReqIs
  <2>2. Applies[isp.sub] \in {"APPLIED", "BUBBLE_APPLIED"}
    BY <2>1 DEF Applies
  <2>3. holder' = [op |-> "apply", req |-> h, sub |-> Applies[isp.sub]]
    BY <2>1 DEF ApplyBegin
  <2>4. holder'.op = "apply" /\ holder'.req = h /\ holder'.sub \in {"APPLIED", "BUBBLE_APPLIED"}
        /\ holder' \in HolderType
    BY <2>1, <2>2, <2>3 DEF HolderType, Subs
  <2> QED BY <2>1, <2>4 DEF ApplyBegin, ApplyTaken
<1>2. /\ crm'.has = crm.has /\ crm'.sent = crm.sent /\ crm'.back = crm.back
      /\ crm'.fatal = crm.fatal /\ crm'.trigger = FALSE /\ crm' \in CrmType
  BY <1>0, <1>1 DEF IspType, CrmType
<1>3. Running /\ ~Applying /\ ~Flushing /\ ~Latching
  BY <1>1 DEF Running, Applying, Flushing, Latching, Nobody
<1>4. h \in P /\ h \in Reqs /\ h \notin W /\ h \notin A /\ \A x \in P : h <= x
      /\ P \subseteq Reqs /\ W \subseteq Reqs /\ A \subseteq Reqs
      /\ (list.wait # <<>> => Head(list.wait) \in W)
  BY <1>0, <1>1, ListFacts
<1>5. /\ req' \in [Reqs -> ReqType]
      /\ \A x \in Reqs :
           /\ req'[x].left = req[x].left
           /\ req'[x].out = req[x].out /\ req'[x].kind = req[x].kind
           /\ req'[x].acked = req[x].acked /\ req'[x].bubble = req[x].bubble
           /\ req'[x].report = (IF x = h THEN req[x].recover ELSE req[x].report)
           /\ req'[x].recover = req[x].recover
  <2>1. req \in [Reqs -> ReqType] /\ req' = [req EXCEPT ![h].report = req[h].recover] /\ h \in Reqs
    BY <1>0, <1>1, <1>4 DEF IspType
  <2>2. req'[h] = [req[h] EXCEPT !.report = req[h].recover] /\ req[h] \in ReqType
        /\ \A x \in Reqs : x # h => req'[x] = req[x]
    BY <2>1
  <2>3. /\ req'[h] \in ReqType
        /\ req'[h].left = req[h].left /\ req'[h].out = req[h].out /\ req'[h].kind = req[h].kind
        /\ req'[h].acked = req[h].acked /\ req'[h].bubble = req[h].bubble
        /\ req'[h].report = req[h].recover /\ req'[h].recover = req[h].recover
    BY <2>2 DEF ReqType
  <2>4. req' \in [Reqs -> ReqType]
    BY <2>1, <2>2, <2>3
  <2> QED BY <2>2, <2>3, <2>4
<1>6. Taken' = Taken /\ \A x \in Reqs : Due(x)' = Due(x) /\ (x # h => (Bubbled(x)' <=> Bubbled(x)))
  BY <1>1, <1>5 DEF Taken, Due, Bubbled
<1>7. /\ P' = P /\ W' = W /\ A' = A /\ Running' /\ Applying' /\ ~Flushing' /\ ~Latching'
      /\ (\A x : Waits(x)' <=> Waits(x)) /\ Ahead' = Ahead
  BY <1>1, <1>2, <1>3 DEF P, W, A, Running, Applying, Flushing, Latching, Waits, Nobody, Ahead
<1>8. list.wait = <<>> /\ Len(list.active) <= 1
  <2>1. SubInv /\ Len(list.active) \in Nat
    BY <1>0, ListFacts, ElemsOf DEF IspInv
  <2> QED BY <1>1, <1>3, <2>1 DEF SubInv
<1>9. crm.back = NoReq
  <2> SUFFICES ASSUME crm.back # NoReq PROVE FALSE
    OBVIOUS
  <2>1. h = crm.back /\ crm.sent = crm.back
    BY <1>1, <1>3 DEF IspInv, CrmInv
  <2>2. h > crm.sent /\ h \in Nat
    BY <1>0, <1>1, <1>4, AskedIs, NoReqIs DEF Ahead
  <2> QED BY <2>1, <2>2
<1>10. IspType' BY <1>0, <1>1, <1>2, <1>5 DEF IspType
<1>11. OrderInv' BY <1>0, <1>1, <1>7 DEF OrderInv
<1>12. StateInv'
  <2>1. StateInv /\ crm.has \subseteq Reqs BY <1>0 DEF IspInv, IspType, CrmType
  <2> QED BY <1>1, <1>2, <1>4, <1>5, <1>6, <1>7, <2>1 DEF StateInv
<1>13. IdInv'
  <2>1. IdInv /\ crm.has \subseteq Reqs BY <1>0 DEF IspInv, IspType, CrmType
  <2> QED BY <1>1, <1>2, <1>4, <1>5, <1>6, <1>7, <2>1 DEF IdInv
<1>14. HolderInv'
  <2>1. req'[h].report = req'[h].recover
    BY <1>4, <1>5
  <2> QED BY <1>1, <1>2, <1>7, <1>8, <2>1 DEF HolderInv
<1>15. HwInv'
  <2>1. \A p \in Ports : \A x \in Elems(hw.todo[p]) : x \in Reqs
    BY <1>0, ElemsOf DEF IspType, HwType
  <2>2. HwInv BY DEF IspInv
  <2> QED BY <1>1, <1>2, <1>3, <1>5, <1>7, <2>1, <2>2 DEF HwInv
<1>16. SubInv'
  <2>1. SubInv BY DEF IspInv
  <2> QED BY <1>1, <1>3, <1>7, <1>8, <2>1 DEF SubInv
<1>17. BubbleInv'
  <2>1. BubbleInv BY DEF IspInv
  <2>2. \A x \in A \cup W : x \in Reqs /\ x # h
    BY <1>4
  <2> QED BY <1>1, <1>3, <1>5, <1>6, <1>7, <2>1, <2>2 DEF BubbleInv
<1>18. ReqInv'
  <2>1. ReqInv BY DEF IspInv
  <2>2. \A x \in A : x # h /\ x \in Reqs
    BY <1>4
  <2> QED BY <1>4, <1>5, <1>6, <1>7, <2>1, <2>2 DEF ReqInv, Taken
<1>19. CrmInv'
  <2>1. CrmInv BY DEF IspInv
  <2> QED BY <1>1, <1>2, <1>3, <1>4, <1>5, <1>7, <1>9, <2>1 DEF CrmInv
<1>20. AheadInv'
  <2>1. AheadInv BY DEF IspInv
  <2> QED BY <1>1, <1>2, <1>3, <1>7, <2>1 DEF AheadInv
<1> QED BY <1>10, <1>11, <1>12, <1>13, <1>14, <1>15, <1>16, <1>17, <1>18, <1>19, <1>20 DEF IspInv

\* hw_config fails: the apply is over, and nothing has changed.
LEMMA ConfigFails ==
  ASSUME IspInv, holder.op = "apply", holder' = Nobody,
         UNCHANGED <<state, isp, list, req, hw, crm, errs>>
  PROVE  IspInv'
<1>1. /\ P' = P /\ W' = W /\ A' = A /\ Running /\ Running' /\ Applying /\ ~Applying' /\ ~Flushing /\ ~Flushing'
      /\ ~Latching /\ ~Latching' /\ ~crm.trigger /\ list.wait = <<>>
      /\ (\A x : Waits(x)' <=> Waits(x)) /\ Ahead' = Ahead /\ Taken' = Taken
      /\ \A x : Due(x)' = Due(x) /\ (Bubbled(x)' <=> Bubbled(x))
  BY DEF IspInv, HolderInv, P, W, A, Running, Applying, Flushing, Latching, Waits, Nobody, Ahead, Taken,
         Due, Bubbled
<1>2. IspType'
  <2>1. Nobody \in HolderType BY NoReqIs DEF HolderType, Nobody
  <2> QED BY <2>1 DEF IspInv, IspType
<1>3. OrderInv' BY <1>1 DEF IspInv, OrderInv
<1>4. StateInv' BY <1>1 DEF IspInv, StateInv
<1>5. IdInv' BY <1>1 DEF IspInv, IdInv
<1>6. HolderInv' BY <1>1 DEF HolderInv
<1>7. HwInv' BY <1>1 DEF IspInv, HwInv, Nobody
<1>8. SubInv' BY <1>1 DEF IspInv, SubInv
<1>9. BubbleInv' BY <1>1 DEF IspInv, BubbleInv
<1>10. ReqInv' BY <1>1 DEF IspInv, ReqInv
<1>11. CrmInv' BY <1>1 DEF IspInv, CrmInv
<1>12. AheadInv' BY <1>1 DEF IspInv, AheadInv
<1> QED BY <1>2, <1>3, <1>4, <1>5, <1>6, <1>7, <1>8, <1>9, <1>10, <1>11, <1>12 DEF IspInv

\* The hardware has the configuration of the request, and no other to latch.
LEMMA ConfigDone ==
  ASSUME IspInv, holder.op = "apply", holder' = [holder EXCEPT !.op = "config"],
         hw' = [hw EXCEPT !.loaded = holder.req],
         UNCHANGED <<state, isp, list, req, crm, errs>>
  PROVE  IspInv'
<1> DEFINE h == Head(list.pending)
<1>0. IspType /\ OrderInv
  BY DEF IspInv
<1>1. /\ Applying /\ Running /\ list.pending # <<>> /\ holder.req = h
      /\ holder.sub \in {"APPLIED", "BUBBLE_APPLIED"} /\ isp.sub \in {"SOF", "EPOCH", "BUBBLE"}
      /\ ~isp.process_bubble /\ Len(list.active) <= 1 /\ list.wait = <<>> /\ ~crm.trigger
      /\ req[h].report = req[h].recover
  BY DEF IspInv, HolderInv, Applying
<1>2. /\ holder'.op = "config" /\ holder'.req = h /\ holder'.sub = holder.sub /\ holder' \in HolderType
  BY <1>0, <1>1 DEF IspType, HolderType
<1>3. h \in P /\ h \in Reqs /\ h \notin A /\ h # NoReq /\ h \in Nat /\ W = {}
      /\ \A x \in A : x < h /\ x # h
  <2>1. h \in P /\ h \in Reqs /\ h \notin A /\ h \in Nat /\ h # NoReq /\ W = {}
    BY <1>0, <1>1, ListFacts, NoReqIs
  <2>2. \A x \in A : x < h
    BY <1>0, <2>1 DEF OrderInv, Before
  <2> QED BY <2>1, <2>2
<1>4. /\ hw'.loaded = h /\ hw'.frame = hw.frame /\ hw'.cur = hw.cur /\ hw'.rup = hw.rup /\ hw'.todo = hw.todo
      /\ hw' \in HwType
  BY <1>0, <1>1, <1>3 DEF IspType, HwType
<1>5. hw.loaded = NoReq /\ ~hw.rup
  BY <1>1 DEF IspInv, HwInv
<1>6. /\ P' = P /\ W' = W /\ A' = A /\ Running' /\ Applying' /\ ~Flushing /\ ~Flushing'
      /\ ~Latching /\ ~Latching'
      /\ (\A x : ~Waits(x) /\ (Waits(x)' <=> x = h)) /\ Ahead' = Ahead /\ Taken' = Taken
      /\ \A x : Bubbled(x)' <=> Bubbled(x)
  BY <1>1, <1>2, <1>3 DEF P, W, A, Running, Applying, Flushing, Latching, Waits, Ahead, Taken, Bubbled
<1>7. /\ \A x \in Reqs : x # h => Due(x)' = Due(x)
      /\ Due(h)' = req[h].out
  BY <1>3, <1>4, <1>5, NoReqIs DEF Due
<1>8. IspType' BY <1>0, <1>2, <1>4 DEF IspType
<1>9. OrderInv' BY <1>0, <1>6 DEF OrderInv
<1>10. StateInv' BY <1>6 DEF IspInv, StateInv
<1>11. IdInv' BY <1>6 DEF IspInv, IdInv
<1>12. HolderInv' BY <1>1, <1>2, <1>6 DEF HolderInv
<1>13. HwInv'
  <2>1. \A p \in Ports : \A x \in Elems(hw.todo[p]) : x \in A /\ p \in req[x].out
    BY <1>1, <1>6 DEF IspInv, HwInv
  <2>2. \A p \in Ports : Increasing(hw.todo[p])
    BY <1>1 DEF IspInv, HwInv
  <2> QED BY <1>1, <1>2, <1>3, <1>4, <1>5, <1>6, <2>1, <2>2 DEF HwInv
<1>14. SubInv' BY <1>1, <1>4, <1>6 DEF IspInv, SubInv
<1>15. BubbleInv'
  <2>1. BubbleInv /\ isp.frame_cnt \in Nat BY <1>0 DEF IspInv, IspType, CtxType
  <2>2. ~(isp.frame_cnt > 0) BY <1>1, <2>1 DEF BubbleInv
  <2> QED BY <1>1, <1>4, <1>6, <2>1, <2>2 DEF BubbleInv
<1>16. ReqInv'
  <2>1. ReqInv /\ A \subseteq Reqs BY <1>0, ListFacts DEF IspInv
  <2> QED BY <1>3, <1>6, <1>7, <2>1 DEF ReqInv
<1>17. CrmInv' BY <1>1, <1>6 DEF IspInv, CrmInv
<1>18. AheadInv' BY <1>1, <1>6 DEF IspInv, AheadInv
<1> QED BY <1>8, <1>9, <1>10, <1>11, <1>12, <1>13, <1>14, <1>15, <1>16, <1>17, <1>18 DEF IspInv

\* The configuration fails or is done.
LEMMA ApplyConfigStep == ASSUME IspInv, ApplyConfig PROVE IspInv'
BY ConfigFails, ConfigDone DEF ApplyConfig

-----------------------------------------------------------------------------
(* Apply ends; a packet                                                       *)

\* The request that is still the head of the pending list waits for its reg update.
LEMMA ApplyEndStep == ASSUME IspInv, ApplyEnd PROVE IspInv'
<1> DEFINE h == Head(list.pending)
<1>0. IspType /\ OrderInv
  BY DEF IspInv
<1>1. /\ holder.op = "config" /\ Applying /\ Running /\ state = "ACTIVATED" /\ list.pending # <<>> /\ holder.req = h
      /\ holder.sub \in {"APPLIED", "BUBBLE_APPLIED"} /\ isp.sub \in {"SOF", "EPOCH", "BUBBLE"}
      /\ ~isp.process_bubble /\ Len(list.active) <= 1 /\ list.wait = <<>> /\ ~crm.trigger
      /\ req[h].report = req[h].recover
  BY DEF IspInv, HolderInv, Applying, ApplyEnd, Running
<1>2. h \in P /\ h \in Reqs /\ h \notin A /\ h # NoReq /\ h \in Nat /\ W = {} /\ P \subseteq Reqs /\ A \subseteq Reqs
      /\ (\A x \in A : x < h /\ x # h) /\ (\A x \in P \ {h} : h < x)
  <2>1. h \in P /\ h \in Reqs /\ h \notin A /\ h \in Nat /\ h # NoReq /\ W = {} /\ P \subseteq Reqs
        /\ A \subseteq Reqs /\ \A x \in P : h <= x
    BY <1>0, <1>1, ListFacts, NoReqIs
  <2>2. \A x \in A : x < h
    BY <1>0, <2>1 DEF OrderInv, Before
  <2>3. \A x \in P \ {h} : h < x
    BY <2>1, NoReqIs
  <2> QED BY <2>1, <2>2, <2>3
<1>3. /\ holder' = Nobody /\ crm' = [crm EXCEPT !.sent = h]
      /\ isp' = [isp EXCEPT !.sub = holder.sub, !.last_applied = h]
      /\ list' = [pending |-> Without(list.pending, h), wait |-> Append(Without(list.wait, h), h),
                  active |-> Without(list.active, h)]
      /\ UNCHANGED <<state, req, hw, errs>>
  BY <1>1 DEF ApplyEnd
<1>4. /\ list'.pending \in Seq(Reqs) /\ Increasing(list'.pending) /\ P' = P \ {h}
      /\ list'.wait \in Seq(Reqs) /\ list'.wait # <<>> /\ Len(list'.wait) = 1 /\ Head(list'.wait) = h /\ W' = {h}
      /\ list'.active = list.active /\ A' = A
      /\ list' \in ListsType
  <2>1. Without(list.pending, h) \in Seq(Reqs) /\ Increasing(Without(list.pending, h))
        /\ Elems(Without(list.pending, h)) = P \ {h}
    BY <1>0, WithoutPending
  <2>2. Without(list.wait, h) = <<>> /\ <<>> \in Seq(Reqs) /\ Elems(<<>>) = {} /\ Increasing(<<>>) /\ Len(<<>>) = 0
    BY <1>1, NoElems DEF Without
  <2>3. /\ Append(<<>>, h) \in Seq(Reqs) /\ Append(<<>>, h) # <<>> /\ Len(Append(<<>>, h)) = 1
        /\ Elems(Append(<<>>, h)) = {h}
    <3>1. \A x \in Elems(<<>>) : x < h
      BY <2>2
    <3>2. /\ Append(<<>>, h) \in Seq(Reqs) /\ Append(<<>>, h) # <<>>
          /\ Len(Append(<<>>, h)) = Len(<<>>) + 1 /\ Elems(Append(<<>>, h)) = Elems(<<>>) \cup {h}
      BY <1>2, <2>2, <3>1, AppendList
    <3> QED BY <2>2, <3>2
  <2>4. Head(Append(<<>>, h)) = h
    BY <2>3, SingleList
  <2>5. Without(list.active, h) = list.active /\ list.active \in Seq(Reqs)
    BY <1>0, <1>2, ListFacts DEF Without, A
  <2> HIDE DEF h
  <2> QED BY <1>3, <2>1, <2>2, <2>3, <2>4, <2>5 DEF ListsType, P, W, A
<1>5. /\ crm'.has = crm.has /\ crm'.sent = h /\ crm'.back = crm.back
      /\ crm'.fatal = crm.fatal /\ crm'.trigger = crm.trigger /\ crm' \in CrmType
  BY <1>0, <1>2, <1>3 DEF IspType, CrmType
<1>6. /\ isp'.sub \in {"APPLIED", "BUBBLE_APPLIED"} /\ isp'.cnt = isp.cnt
      /\ isp'.process_bubble = isp.process_bubble /\ isp'.frame_cnt = isp.frame_cnt
      /\ isp'.last_applied = h /\ isp'.last_flush = isp.last_flush /\ isp' \in CtxType
  <2>1. holder.sub \in Subs
    BY <1>1 DEF Subs
  <2> QED BY <1>0, <1>1, <1>2, <1>3, <2>1 DEF IspType, CtxType
<1>7. /\ Running' /\ ~Applying' /\ ~Flushing /\ ~Flushing' /\ ~Latching /\ Latching' /\ Taken' = Taken
      /\ (\A x : Waits(x)' <=> Waits(x))
      /\ \A x : Due(x)' = Due(x) /\ (Bubbled(x)' <=> Bubbled(x))
  BY <1>1, <1>2, <1>3, <1>4, <1>6
     DEF Running, Applying, Flushing, Latching, Waits, Taken, Due, Bubbled, Nobody
<1>8. IspType'
  <2>1. holder' \in HolderType
    BY <1>3, NoReqIs DEF HolderType, Nobody
  <2> QED BY <1>0, <1>3, <1>4, <1>5, <1>6, <2>1 DEF IspType
<1>9. OrderInv' BY <1>0, <1>1, <1>2, <1>4 DEF OrderInv, Before
<1>10. h \in crm.has /\ req[h].kind = "update" /\ h \in Taken /\ crm.back = NoReq
  BY <1>1, <1>2, <1>7 DEF IspInv, StateInv, CrmInv
<1>11. StateInv'
  <2>1. StateInv /\ crm.has \subseteq Reqs BY <1>0 DEF IspInv, IspType, CrmType
  <2> QED BY <1>1, <1>2, <1>3, <1>4, <1>5, <1>7, <1>10, <2>1 DEF StateInv
<1>12. IdInv'
  <2>1. IdInv BY DEF IspInv
  <2> QED BY <1>1, <1>2, <1>3, <1>4, <1>5, <1>6, <1>7, <1>10, <2>1 DEF IdInv
<1>13. HolderInv' BY <1>3, <1>7 DEF HolderInv
<1>14. HwInv'
  <2>1. HwInv BY DEF IspInv
  <2> QED BY <1>1, <1>3, <1>4, <1>5, <1>6, <1>7, <2>1 DEF HwInv, Nobody
<1>15. SubInv'
  <2>1. isp.cnt = Len(list.active) BY <1>1 DEF IspInv, SubInv
  <2> QED BY <1>1, <1>3, <1>4, <1>5, <1>6, <1>7, <1>10, <2>1 DEF SubInv
<1>16. BubbleInv'
  <2>1. BubbleInv /\ isp.frame_cnt \in Nat BY <1>0 DEF IspInv, IspType, CtxType
  <2>2. ~(isp.frame_cnt > 0) /\ \A x \in A : ~Bubbled(x) BY <1>1, <2>1 DEF BubbleInv
  <2>3. \A x \in A : x <= h BY <1>2, NoReqIs
  <2>4. \A x \in A \cup W' : req[x].kind = "update" => req[x].report = req[x].recover
    BY <1>1, <1>2, <1>4, <2>1 DEF BubbleInv
  <2> QED BY <1>1, <1>3, <1>4, <1>6, <1>7, <1>10, <2>1, <2>2, <2>3, <2>4 DEF BubbleInv
<1>17. ReqInv'
  <2>1. ReqInv BY DEF IspInv
  <2> QED BY <1>2, <1>3, <1>4, <1>7, <2>1 DEF ReqInv
<1>18. CrmInv'
  <2>1. CrmInv BY DEF IspInv
  <2>2. \A x \in A \cup {h} : x <= h BY <1>2, NoReqIs
  <2>3. P \subseteq crm.has /\ \A x \in A : req[x].kind = "update" => x \in crm.has
    BY <1>1, <1>7, <2>1 DEF CrmInv
  <2> QED BY <1>1, <1>2, <1>3, <1>4, <1>5, <1>6, <1>7, <1>10, <2>2, <2>3 DEF CrmInv
<1>19. AheadInv'
  <2> SUFFICES ASSUME ~crm.fatal PROVE Ahead' = P \ {h}
    BY <1>1, <1>3, <1>4, <1>5, <1>6, <1>7, <1>10 DEF AheadInv
  <2>1. Ahead = P
    BY <1>1, <1>7, <1>10 DEF IspInv, AheadInv
  <2>2. \A x \in crm.has : x \in Nat BY <1>0, NoReqIs DEF IspType, CrmType
  <2>3. Ahead' = {x \in crm.has : x > h} /\ Ahead = {x \in crm.has : x > crm.sent} /\ crm.sent \in Nat
    BY <1>0, <1>5 DEF Ahead, IspType, CrmType
  <2> QED BY <1>2, <2>1, <2>2, <2>3
<1> QED BY <1>8, <1>9, <1>11, <1>12, <1>13, <1>14, <1>15, <1>16, <1>17, <1>18, <1>19 DEF IspInv

-----------------------------------------------------------------------------
(* Packets and the start of the hardware                                    *)

\* A new request object; those of the others are not touched.
LEMMA NewObjIs ==
  ASSUME IspType, NEW r \in Reqs, NEW kind \in {"init", "update"}, NEW out \in SUBSET Ports,
         NEW stale \in BOOLEAN, NEW recover \in BOOLEAN
  PROVE  /\ NewObj(r, kind, out, stale, recover) \in [Reqs -> ReqType]
         /\ NewObj(r, kind, out, stale, recover)[r].kind = kind
         /\ NewObj(r, kind, out, stale, recover)[r].out = out
         /\ NewObj(r, kind, out, stale, recover)[r].left = out
         /\ NewObj(r, kind, out, stale, recover)[r].acked = 0
         /\ ~NewObj(r, kind, out, stale, recover)[r].bubble
         /\ NewObj(r, kind, out, stale, recover)[r].report = stale
         /\ NewObj(r, kind, out, stale, recover)[r].recover = recover
         /\ \A x \in Reqs : x # r => NewObj(r, kind, out, stale, recover)[x] = req[x]
<1> DEFINE n == [NewReq EXCEPT !.kind = kind, !.out = out, !.left = out, !.report = stale, !.recover = recover]
<1>1. /\ n \in ReqType /\ n.kind = kind /\ n.out = out /\ n.left = out /\ n.ok = {} /\ n.filled = {}
      /\ n.acked = 0 /\ ~n.bubble /\ n.report = stale /\ n.recover = recover
  BY DEF NewReq, ReqType
<1>2. NewObj(r, kind, out, stale, recover) = [req EXCEPT ![r] = n] /\ req \in [Reqs -> ReqType]
  BY DEF NewObj, IspType
<1> HIDE DEF n
<1> QED BY <1>1, <1>2

\* A packet behind the ones that are not newer
LEMMA ConfigUpdateStep ==
  ASSUME IspInv, Orderly, NEW r \in Reqs, NEW out \in SUBSET Ports, NEW stale \in BOOLEAN,
         NEW recover \in BOOLEAN, ConfigUpdate(r, out, stale, recover)
  PROVE  IspInv'
<1>0. IspType /\ OrderInv
  BY DEF IspInv
<1>1. /\ holder = Nobody /\ state \in {"READY", "ACTIVATED"} /\ r \notin Taken
      /\ r > isp.last_flush /\ r > isp.last_applied
      /\ \A x \in Taken : req[x].kind = "init" \/ x \notin P => x < r
      /\ \A x \in crm.has : req[x].recover = recover
      /\ req' = NewObj(r, "update", out, stale, recover)
      /\ list' = [list EXCEPT !.pending = InOrder(list.pending, r)]
      /\ crm' = [crm EXCEPT !.has = crm.has \cup {r}]
      /\ UNCHANGED <<state, isp, holder, hw, errs>>
  BY DEF ConfigUpdate, Orderly, P
<1>2. /\ P \subseteq Taken /\ W \subseteq Taken /\ A \subseteq Taken /\ Taken \subseteq Reqs
      /\ r \notin P /\ r \notin W /\ r \notin A /\ r \in Nat
      /\ \A x \in P : x \notin W /\ x \notin A
      /\ (list.wait # <<>> => Head(list.wait) \in W) /\ (list.pending # <<>> => Head(list.pending) \in P)
      /\ \A x \in P : Head(list.pending) <= x
  <2>1. P \subseteq Taken /\ W \subseteq Taken /\ A \subseteq Taken /\ Taken \subseteq Reqs
    BY DEF IspInv, StateInv, Taken
  <2> QED BY <1>0, <1>1, <2>1, ListFacts, NoReqIs
<1>3. /\ req' \in [Reqs -> ReqType]
      /\ req'[r].kind = "update" /\ req'[r].out = out /\ req'[r].left = out
      /\ req'[r].acked = 0 /\ ~req'[r].bubble /\ req'[r].recover = recover
      /\ \A x \in Reqs : x # r => req'[x] = req[x]
  <2>1. "update" \in {"init", "update"} /\ req' = NewObj(r, "update", out, stale, recover)
    BY <1>1
  <2> QED BY <1>0, <2>1, NewObjIs
<1>4. /\ list'.pending = InOrder(list.pending, r) /\ list'.wait = list.wait /\ list'.active = list.active
      /\ list'.pending # <<>> /\ list'.pending \in Seq(Reqs)
      /\ list' \in ListsType /\ Increasing(list'.pending) /\ P' = P \cup {r} /\ W' = W /\ A' = A
  <2>1. /\ InOrder(list.pending, r) \in Seq(Reqs) /\ Increasing(InOrder(list.pending, r))
        /\ InOrder(list.pending, r) # <<>> /\ Elems(InOrder(list.pending, r)) = P \cup {r}
    BY <1>0, <1>2, ListFacts, InsertList DEF OrderInv, P
  <2>2. list'.pending = InOrder(list.pending, r) /\ list'.wait = list.wait /\ list'.active = list.active
        /\ list' \in ListsType
    BY <1>0, <1>1, <2>1 DEF IspType, ListsType
  <2> QED BY <2>1, <2>2 DEF P, W, A
<1>5. /\ crm'.has = crm.has \cup {r} /\ crm'.sent = crm.sent /\ crm'.back = crm.back
      /\ crm'.fatal = crm.fatal /\ crm'.trigger = crm.trigger /\ crm' \in CrmType /\ crm.has \subseteq Reqs
      /\ r \notin crm.has
  <2>1. \A x \in crm.has : x \in Reqs /\ req[x].kind = "update"
    BY <1>0 DEF IspInv, StateInv, IspType, CrmType
  <2>2. r \notin crm.has
    BY <1>1, <2>1 DEF Taken
  <2> QED BY <1>0, <1>1, <2>2 DEF IspType, CrmType
<1>6. /\ Taken' = Taken \cup {r} /\ (Running' <=> Running) /\ ~Applying /\ ~Applying' /\ ~Flushing /\ ~Flushing'
      /\ (Latching' <=> Latching)
      /\ (\A x : Waits(x)' <=> Waits(x)) /\ ~Waits(r)
      /\ \A x \in Reqs : x # r => Due(x)' = Due(x) /\ (Bubbled(x)' <=> Bubbled(x))
  BY <1>1, <1>2, <1>3, <1>4 DEF Taken, Running, Applying, Flushing, Latching, Waits, Due, Bubbled, Nobody
<1>7. \A x \in A \cup W : x < r
  BY <1>1, <1>2
<1>8. ASSUME list.pending # <<>>, Head(list.pending) < r
      PROVE  Head(list'.pending) = Head(list.pending)
  <2>0. Elems(list'.pending) = P \cup {r}
    BY <1>4 DEF P
  <2>1. Head(list.pending) \in Elems(list'.pending) /\ \A x \in Elems(list'.pending) : Head(list.pending) <= x
    <3>1. Head(list.pending) \in P /\ Head(list.pending) \in Nat /\ \A x \in P : Head(list.pending) <= x
      BY <1>2, <1>8, NoReqIs
    <3>2. Head(list.pending) <= r
      BY <1>2, <1>8, <3>1
    <3> QED BY <2>0, <3>1, <3>2
  <2> QED BY <1>4, <2>1, HeadIs
<1>9. state = "READY" => list.pending # <<>> /\ Head(list'.pending) = Head(list.pending)
                         /\ req[Head(list.pending)].kind = "init"
                         /\ crm.has = P \ {Head(list.pending)}
  <2>1. state = "READY" => /\ list.pending # <<>> /\ req[Head(list.pending)].kind = "init"
                           /\ crm.has = P \ {Head(list.pending)}
    BY DEF IspInv, StateInv
  <2>2. state = "READY" => Head(list.pending) < r
    BY <1>1, <1>2, <2>1
  <2> QED BY <1>8, <2>1, <2>2
<1>10. IspType' BY <1>0, <1>1, <1>3, <1>4, <1>5 DEF IspType
<1>11. OrderInv' BY <1>0, <1>4, <1>7 DEF OrderInv, Before
<1>12. StateInv'
  <2>0. StateInv BY DEF IspInv
  <2>1. ~Running' => /\ list'.active = <<>> /\ list'.wait = <<>> /\ hw' = IdleHw /\ holder' = Nobody
                     /\ crm'.sent = NoReq /\ crm'.back = NoReq /\ ~crm'.fatal /\ ~crm'.trigger
    BY <1>1, <1>4, <1>5, <1>6, <2>0 DEF StateInv
  <2>2. state' = "READY" => /\ list'.pending # <<>> /\ req'[Head(list'.pending)].kind = "init"
                            /\ crm'.has = P' \ {Head(list'.pending)}
    BY <1>1, <1>2, <1>3, <1>4, <1>5, <1>9, <2>0 DEF StateInv
  <2>3. \A x \in crm'.has : req'[x].kind = "update"
    BY <1>3, <1>5, <2>0 DEF StateInv
  <2>4. state' = "ACTIVATED" => \A x \in P' : req'[x].kind = "update"
    BY <1>1, <1>2, <1>3, <1>4, <2>0 DEF StateInv
  <2>5. (P \cup W \cup A)' \subseteq Taken'
    BY <1>2, <1>4, <1>6
  <2> QED BY <1>1, <2>1, <2>2, <2>3, <2>4, <2>5 DEF StateInv
<1>13. IdInv'
  <2>0. IdInv BY DEF IspInv
  <2>1. \A x \in P' \cup W' \cup A' : x > isp.last_flush
    BY <1>1, <1>4, <2>0 DEF IdInv
  <2>2. \A x \in Reqs : req'[x].kind = "init" => ~req'[x].recover
    BY <1>3, <2>0 DEF IdInv
  <2>3. \A x \in crm'.has \cup W' \cup A' : req'[x].kind = "update" => req'[x].recover = recover
    <3>1. \A x \in crm.has \cup W \cup A : x \in Reqs /\ x # r
      BY <1>2, <1>5
    <3>2. \A x \in W \cup A : req[x].kind = "update" => x \in crm.has
      <4>1. CASE Running BY <1>6, <4>1 DEF IspInv, CrmInv
      <4>2. CASE ~Running
        <5>1. W = {} /\ A = {}
          BY <1>0, <4>2, ListFacts DEF IspInv, StateInv
        <5> QED BY <5>1
      <4> QED BY <4>1, <4>2
    <3> QED BY <1>1, <1>3, <1>4, <1>5, <3>1, <3>2
  <2>4. isp.last_flush \in Taken' \cup {NoReq}
    BY <1>6, <2>0 DEF IdInv
  <2> QED BY <1>1, <2>1, <2>2, <2>3, <2>4 DEF IdInv
<1>14. HolderInv' BY <1>1, <1>6 DEF HolderInv
<1>15. \A x \in Reqs : x \in A \/ Waits(x) => x # r
  BY <1>2, <1>6
<1>16. HwInv'
  <2>1. \A p \in Ports : \A x \in Elems(hw.todo[p]) : x \in Reqs
    BY <1>0, ElemsOf DEF IspType, HwType
  <2>2. HwInv BY DEF IspInv
  <2> QED BY <1>1, <1>3, <1>4, <1>5, <1>6, <1>15, <2>1, <2>2 DEF HwInv
<1>17. SubInv'
  <2>1. list.wait # <<>> => req'[Head(list.wait)] = req[Head(list.wait)]
    BY <1>2, <1>3
  <2>2. SubInv BY DEF IspInv
  <2> QED BY <1>1, <1>4, <1>5, <1>6, <2>1, <2>2 DEF SubInv
<1>18. BubbleInv'
  <2>1. BubbleInv BY DEF IspInv
  <2>2. \A x \in A \cup W : x \in Reqs /\ x # r
    BY <1>2
  <2> QED BY <1>1, <1>3, <1>4, <1>6, <2>1, <2>2 DEF BubbleInv
<1>19. ReqInv'
  <2>1. ReqInv BY DEF IspInv
  <2>2. IsFiniteSet(out) /\ Cardinality(out) \in Nat
    BY IspAssumption, FS_Subset, FS_CardinalityType
  <2>3. \A x \in A \cup W \cup P : x \in Reqs /\ x # r
    BY <1>2
  <2>4. \A x \in Reqs : req'[x].left \subseteq req'[x].out /\ req'[x].acked <= Cardinality(req'[x].out)
    BY <1>3, <2>1, <2>2 DEF ReqInv
  <2>5. \A x \in P' \cup W' : req'[x].acked = 0 /\ req'[x].left = req'[x].out /\ ~req'[x].bubble
    BY <1>3, <1>4, <2>1, <2>3 DEF ReqInv
  <2>6. \A x \in A' : /\ req'[x].acked + Cardinality(Due(x)') = Cardinality(req'[x].out)
                      /\ req'[x].left = IF Bubbled(x)' THEN req'[x].out ELSE Due(x)'
                      /\ req'[x].out # {} => Due(x)' # {}
    BY <1>3, <1>4, <1>6, <2>1, <2>3 DEF ReqInv
  <2>7. \A x \in Reqs : Waits(x)' => Due(x)' = req'[x].out
    BY <1>3, <1>6, <2>1 DEF ReqInv
  <2>8. \A x \in Taken' : x \notin P' \cup W' \cup A' => req'[x].left = {}
    BY <1>2, <1>3, <1>4, <1>6, <2>1 DEF ReqInv
  <2> QED BY <2>4, <2>5, <2>6, <2>7, <2>8 DEF ReqInv
<1>20. CrmInv'
  <2>1. CrmInv BY DEF IspInv
  <2>2. \A x \in A \cup W : x \in Reqs /\ x # r
    BY <1>2
  <2>3. Running /\ crm.back # NoReq /\ ~isp.process_bubble
          => list.pending # <<>> /\ Head(list'.pending) = Head(list.pending)
    BY <1>1, <1>6, <1>8, <2>1 DEF CrmInv
  <2> QED BY <1>1, <1>3, <1>4, <1>5, <1>6, <2>1, <2>2, <2>3 DEF CrmInv
<1>21. AheadInv'
  <2>1. CrmInv BY DEF IspInv
  <2>2. crm.sent \in Nat /\ isp.last_applied \in Nat
    BY <1>0 DEF IspType, CrmType, CtxType
  <2>3. Running => r > crm.sent /\ (crm.back # NoReq => r # crm.back)
    BY <1>1, <1>2, <1>6, <2>1, <2>2 DEF CrmInv
  <2>4. Running => Ahead' = Ahead \cup {r}
    BY <1>5, <2>3 DEF Ahead
  <2>5. AheadInv BY DEF IspInv
  <2> QED BY <1>1, <1>4, <1>5, <1>6, <2>3, <2>4, <2>5 DEF AheadInv
<1> QED BY <1>10, <1>11, <1>12, <1>13, <1>14, <1>16, <1>17, <1>18, <1>19, <1>20, <1>21 DEF IspInv

-----------------------------------------------------------------------------
(* Start, and the initial packet                                              *)

\* The list of one request
LEMMA OneElement ==
  ASSUME NEW r \in Reqs
  PROVE  /\ Append(<<>>, r) \in Seq(Reqs) /\ Append(<<>>, r) # <<>> /\ Len(Append(<<>>, r)) = 1
         /\ Elems(Append(<<>>, r)) = {r} /\ Head(Append(<<>>, r)) = r /\ Increasing(Append(<<>>, r))
<1>1. <<>> \in Seq(Reqs) /\ Elems(<<>>) = {} /\ Increasing(<<>>) /\ Len(<<>>) = 0
  BY NoElems
<1>2. \A x \in Elems(<<>>) : x < r
  BY <1>1
<1>3. /\ Append(<<>>, r) \in Seq(Reqs) /\ Append(<<>>, r) # <<>> /\ Increasing(Append(<<>>, r))
      /\ Len(Append(<<>>, r)) = Len(<<>>) + 1 /\ Elems(Append(<<>>, r)) = Elems(<<>>) \cup {r}
  BY <1>1, <1>2, AppendList
<1>4. Len(Append(<<>>, r)) = 1 /\ Elems(Append(<<>>, r)) = {r}
  BY <1>1, <1>3
<1> QED BY <1>3, <1>4, SingleList

\* The context starts with the head of the pending list l.
LEMMA StartedStep ==
  ASSUME IspInv, ~Running, UNCHANGED <<holder, crm, errs>>,
         NEW s \in Seq(Reqs), s # <<>>, Increasing(s), NEW r, r = Head(s),
         req' \in [Reqs -> ReqType], NEW l, l \in ListsType, l.pending = s,
         l.wait = <<>>, l.active = <<>>, Started(l, req', r),
         crm.has = Elems(s) \ {r},
         Elems(s) \subseteq Taken', isp.last_flush \in Taken' \cup {NoReq},
         \A x \in Elems(s) : x > isp.last_flush,
         \A x \in Reqs : /\ req'[x].kind = "init" => ~req'[x].recover
                         /\ req'[x].left \subseteq req'[x].out /\ req'[x].acked <= Cardinality(req'[x].out),
         \A x, y \in crm.has : req'[x].recover = req'[y].recover,
         \A x \in crm.has : req'[x].kind = "update",
         req'[r].kind = "init",
         \A x \in Elems(s) : req'[x].acked = 0 /\ req'[x].left = req'[x].out /\ ~req'[x].bubble,
         \A x \in Taken' : x \notin Elems(s) => req'[x].left = {}
  PROVE  IspInv'
<1>0. IspType /\ OrderInv /\ holder = Nobody /\ crm.sent = NoReq /\ crm.back = NoReq /\ ~crm.fatal /\ ~crm.trigger
  BY DEF IspInv, StateInv
<1>1. /\ r \in Elems(s) /\ r \in Reqs /\ r \in Nat /\ r # NoReq /\ \A x \in Elems(s) : r <= x
      /\ Tail(s) \in Seq(Reqs) /\ Increasing(Tail(s)) /\ Elems(Tail(s)) = Elems(s) \ {r} /\ Elems(s) \subseteq Reqs
  BY HeadTail, ElemsOf, NoReqIs
<1>2. \A x \in Elems(s) \ {r} : r < x
  BY <1>1, NoReqIs
<1> DEFINE quiet == req'[r].out = {}
<1>3. /\ state' = "ACTIVATED" /\ holder' = Nobody /\ crm' = crm /\ errs' = errs
      /\ hw' = [IdleHw EXCEPT !.loaded = r]
      /\ isp' = [isp EXCEPT !.last_applied = r, !.process_bubble = FALSE, !.frame_cnt = 0,
                            !.cnt = IF quiet THEN 0 ELSE 1, !.sub = IF quiet THEN "SOF" ELSE "EPOCH"]
      /\ quiet => list' = [l EXCEPT !.pending = Tail(s), !.wait = Append(<<>>, r)]
      /\ ~quiet => list' = [l EXCEPT !.pending = Tail(s), !.active = Append(<<>>, r)]
  BY <1>0 DEF Started
<1> HIDE DEF quiet
<1>4. /\ list' \in ListsType /\ list'.pending = Tail(s) /\ P' = crm.has
      /\ quiet => /\ list'.wait = Append(<<>>, r) /\ list'.active = <<>> /\ W' = {r} /\ A' = {}
      /\ ~quiet => /\ list'.wait = <<>> /\ list'.active = Append(<<>>, r) /\ W' = {} /\ A' = {r}
  <2>1. /\ Append(<<>>, r) \in Seq(Reqs) /\ Elems(Append(<<>>, r)) = {r}
        /\ <<>> \in Seq(Reqs) /\ Elems(<<>>) = {}
    BY <1>1, OneElement, NoElems
  <2>2. CASE quiet
    <3>1. /\ list'.pending = Tail(s) /\ list'.wait = Append(<<>>, r) /\ list'.active = <<>> /\ list' \in ListsType
      BY <1>1, <1>3, <2>1, <2>2 DEF ListsType
    <3> QED BY <1>1, <2>1, <2>2, <3>1 DEF P, W, A
  <2>3. CASE ~quiet
    <3>1. /\ list'.pending = Tail(s) /\ list'.active = Append(<<>>, r) /\ list'.wait = <<>> /\ list' \in ListsType
      BY <1>1, <1>3, <2>1, <2>3 DEF ListsType
    <3> QED BY <1>1, <2>1, <2>3, <3>1 DEF P, W, A
  <2> QED BY <2>2, <2>3
<1>5. /\ isp' \in CtxType /\ isp'.last_applied = r /\ isp'.process_bubble = FALSE /\ isp'.frame_cnt = 0
      /\ isp'.last_flush = isp.last_flush
      /\ quiet => isp'.cnt = 0 /\ isp'.sub = "SOF"
      /\ ~quiet => isp'.cnt = 1 /\ isp'.sub = "EPOCH"
  <2>1. isp \in CtxType /\ 0 \in Int /\ 1 \in Int /\ 0 \in Nat /\ "SOF" \in Subs /\ "EPOCH" \in Subs
    BY <1>0 DEF IspType, Subs
  <2>2. CASE quiet
    BY <1>1, <1>3, <2>1, <2>2 DEF CtxType
  <2>3. CASE ~quiet
    BY <1>1, <1>3, <2>1, <2>3 DEF CtxType
  <2> QED BY <2>2, <2>3
<1>6. /\ hw' \in HwType /\ hw'.loaded = r /\ hw'.frame = FALSE /\ hw'.rup = FALSE
      /\ \A p \in Ports : hw'.todo[p] = <<>>
  BY <1>1, <1>3, NoElems, NoReqIs DEF HwType, IdleHw
<1>7. /\ Running' /\ ~Applying' /\ ~Flushing' /\ ~Latching'
      /\ \A x : Waits(x)' <=> (quiet /\ x = r)
  BY <1>3, <1>4, <1>5 DEF Running, Applying, Flushing, Latching, Waits, Nobody
<1>8. Due(r)' = req'[r].out
  BY <1>6 DEF Due
<1>9. (quiet <=> req'[r].out = {}) /\ Elems(<<>>) = {} /\ Len(<<>>) = 0 /\ Increasing(<<>>)
  BY NoElems DEF quiet
<1>10. IspType' BY <1>0, <1>3, <1>4, <1>5, <1>6 DEF IspType, States
<1>11. OrderInv'
  <2>1. Increasing(Append(<<>>, r)) /\ Len(Append(<<>>, r)) = 1
    BY <1>1, OneElement
  <2>2. /\ Increasing(list'.pending) /\ Increasing(list'.active)
        /\ Len(list'.wait) <= 1 /\ Len(list'.active) <= 2
    <3>1. Increasing(list'.pending)
      BY <1>1, <1>4
    <3>2. CASE quiet
      <4>1. list'.wait = Append(<<>>, r) /\ list'.active = <<>>
        BY <1>4, <3>2
      <4>2. Len(list'.wait) <= 1 /\ Len(list'.active) <= 2 /\ Increasing(list'.active)
        BY <1>9, <2>1, <4>1
      <4> QED BY <3>1, <4>2
    <3>3. CASE ~quiet
      <4>1. list'.active = Append(<<>>, r) /\ list'.wait = <<>>
        BY <1>4, <3>3
      <4>2. Len(list'.wait) <= 1 /\ Len(list'.active) <= 2 /\ Increasing(list'.active)
        BY <1>9, <2>1, <4>1
      <4> QED BY <3>1, <4>2
    <3> QED BY <3>2, <3>3
  <2>3. Before(A', W') /\ Before(A', P') /\ Before(W', P')
    BY <1>2, <1>4 DEF Before
  <2> QED BY <2>2, <2>3 DEF OrderInv
<1>12. StateInv'
  <2>1. (P \cup W \cup A)' = Elems(s)
    BY <1>1, <1>4
  <2> QED BY <1>3, <1>4, <1>7, <2>1 DEF StateInv
<1>13. IdInv'
  <2>1. (P \cup W \cup A)' = Elems(s)
    BY <1>1, <1>4
  <2> QED BY <1>3, <1>5, <2>1 DEF IdInv
<1>14. HolderInv' BY <1>3, <1>7 DEF HolderInv
<1>15. HwInv'
  <2>1. \A x \in A' : x <= r
    BY <1>1, <1>4
  <2> QED BY <1>0, <1>1, <1>3, <1>4, <1>6, <1>7, <1>9, <2>1 DEF HwInv, Nobody
<1>16. SubInv'
  <2>1. Head(Append(<<>>, r)) = r /\ Len(Append(<<>>, r)) = 1 /\ Append(<<>>, r) # <<>>
    BY <1>1, OneElement
  <2> QED BY <1>0, <1>3, <1>4, <1>5, <1>6, <1>7, <1>9, <2>1, ZenonT(60) DEF SubInv
<1>17. BubbleInv'
  <2>1. \A x \in A' : x = r /\ x <= r /\ ~Bubbled(x)' /\ ~req'[x].bubble
    BY <1>1, <1>4 DEF Bubbled
  <2>2. \A x \in W' : x = r
    BY <1>4
  <2> QED BY <1>1, <1>3, <1>5, <1>7, <2>1, <2>2 DEF BubbleInv
<1>18. ReqInv'
  <2>1. (P \cup W \cup A)' = Elems(s)
    BY <1>1, <1>4
  <2>2. \A x \in A' : /\ req'[x].acked + Cardinality(Due(x)') = Cardinality(req'[x].out)
                      /\ req'[x].left = IF Bubbled(x)' THEN req'[x].out ELSE Due(x)'
                      /\ req'[x].out # {} => Due(x)' # {}
    <3>1. Cardinality(req'[r].out) \in Nat
      <4>1. req'[r].out \subseteq Ports BY <1>1 DEF ReqType
      <4> QED BY <4>1, IspAssumption, FS_Subset, FS_CardinalityType
    <3>2. \A x \in A' : x = r
      BY <1>4
    <3>3. req'[r].acked + Cardinality(Due(r)') = Cardinality(req'[r].out)
      BY <1>1, <1>8, <3>1
    <3> QED BY <1>1, <1>8, <3>2, <3>3
  <2>3. \A x \in Taken' : x \notin P' \cup W' \cup A' => req'[x].left = {}
    BY <2>1
  <2>4. \A x \in P' \cup W' : req'[x].acked = 0 /\ req'[x].left = req'[x].out /\ ~req'[x].bubble
    BY <2>1
  <2> QED BY <1>7, <1>8, <2>2, <2>3, <2>4 DEF ReqInv
<1>19. CrmInv'
  <2>1. (A \cup W)' = {r}
    BY <1>4
  <2> QED BY <1>0, <1>1, <1>3, <1>4, <1>5, <1>7, <2>1, NoReqIs DEF CrmInv
<1>20. AheadInv'
  <2>1. Ahead' = crm.has
    BY <1>0, <1>3, NoReqIs DEF Ahead, IspType, CrmType
  <2> QED BY <1>0, <1>3, <1>4, <1>5, <2>1 DEF AheadInv
<1> QED BY <1>10, <1>11, <1>12, <1>13, <1>14, <1>15, <1>16, <1>17, <1>18, <1>19, <1>20 DEF IspInv

\* The head of the pending list starts.
LEMMA StartDevStep == ASSUME IspInv, StartDev PROVE IspInv'
<1> DEFINE s == list.pending
           r == Head(s)
<1>0. IspType /\ OrderInv
  BY DEF IspInv
<1>1. /\ holder = Nobody /\ state = "READY" /\ s # <<>> /\ Started(list, req, r)
      /\ UNCHANGED <<req, holder, crm, errs>> /\ ~Running
  BY DEF StartDev, Running
<1>2. /\ list.wait = <<>> /\ list.active = <<>> /\ W = {} /\ A = {}
      /\ req[r].kind = "init" /\ crm.has = P \ {r} /\ P \subseteq Taken
      /\ \A x \in crm.has : req[x].kind = "update"
  BY <1>0, <1>1, ListFacts DEF IspInv, StateInv
<1>3. s \in Seq(Reqs) /\ Increasing(s) /\ P = Elems(s) /\ list \in ListsType
  BY <1>0, ListFacts DEF OrderInv, P, IspType
<1>4. Taken' = Taken /\ req' \in [Reqs -> ReqType] /\ Started(list, req', r) /\ req' = req
  BY <1>0, <1>1 DEF Taken, IspType
<1>5. /\ \A x \in P : x > isp.last_flush
      /\ isp.last_flush \in Taken \cup {NoReq}
      /\ \A x \in Reqs : req[x].kind = "init" => ~req[x].recover
      /\ \A x, y \in crm.has : req[x].recover = req[y].recover
  BY <1>1, <1>2 DEF IspInv, IdInv
<1>6. /\ \A x \in Reqs : req[x].left \subseteq req[x].out /\ req[x].acked <= Cardinality(req[x].out)
      /\ \A x \in P : req[x].acked = 0 /\ req[x].left = req[x].out /\ ~req[x].bubble
      /\ \A x \in Taken : x \notin P => req[x].left = {}
  BY <1>2 DEF IspInv, ReqInv
<1> HIDE DEF r
<1> QED BY <1>1, <1>2, <1>3, <1>4, <1>5, <1>6, StartedStep DEF r

-----------------------------------------------------------------------------

\* An initial packet is pending, or starts at once after a flush.
LEMMA ConfigInitStep ==
  ASSUME IspInv, NEW r \in Reqs, NEW out \in SUBSET Ports, NEW stale \in BOOLEAN,
         ConfigInit(r, out, stale)
  PROVE  IspInv'
<1> DEFINE merged == list.pending # <<>>
           t == IF merged THEN Tail(list.pending) ELSE list.pending
           s == <<r>> \o t
           l == [list EXCEPT !.pending = s]
<1>0. IspType /\ OrderInv
  BY DEF IspInv
<1>1. /\ holder = Nobody /\ state \in {"ACQUIRED", "READY", "FLUSHED"} /\ r \notin Taken /\ InitAccepted
      /\ \A x \in Taken : x \notin crm.has => x < r
      /\ \A x \in crm.has : r < x
      /\ req' = NewObj(r, "init", out, stale, FALSE)
      /\ state = "FLUSHED" => Started(l, req', r)
      /\ state # "FLUSHED" => state' = "READY" /\ list' = l /\ isp' = isp /\ hw' = hw
      /\ UNCHANGED <<holder, crm, errs>> /\ ~Running
  BY DEF ConfigInit, Running
<1>2. /\ list.wait = <<>> /\ list.active = <<>> /\ W = {} /\ A = {} /\ P \subseteq Taken /\ hw = IdleHw
      /\ \A x \in crm.has : req[x].kind = "update"
      /\ crm.has \subseteq Reqs /\ Taken \subseteq Reqs /\ crm.has \subseteq Taken
  BY <1>0, <1>1, ListFacts DEF IspInv, StateInv, IspType, CrmType, Taken
<1>3. /\ req' \in [Reqs -> ReqType]
      /\ req'[r].kind = "init" /\ req'[r].out = out /\ req'[r].left = out
      /\ req'[r].acked = 0 /\ ~req'[r].bubble /\ ~req'[r].recover
      /\ \A x \in Reqs : x # r => req'[x] = req[x]
  <2> DEFINE n == [NewReq EXCEPT !.kind = "init", !.out = out, !.left = out, !.report = stale, !.recover = FALSE]
  <2>1. /\ n \in ReqType /\ n.kind = "init" /\ n.out = out /\ n.left = out /\ n.acked = 0
        /\ ~n.bubble /\ ~n.recover
    BY DEF NewReq, ReqType
  <2>2. req' = [req EXCEPT ![r] = n] /\ req \in [Reqs -> ReqType]
    BY <1>0, <1>1 DEF NewObj, IspType
  <2> HIDE DEF n
  <2> QED BY <2>1, <2>2
<1>4. Taken' = Taken \cup {r}
  BY <1>3 DEF Taken
<1>5. /\ t \in Seq(Reqs) /\ Increasing(t) /\ Elems(t) = crm.has
      /\ \A x \in P : x \notin crm.has => req[x].out = {}
  <2>1. CASE state = "READY"
    <3>1. list.pending # <<>> /\ crm.has = P \ {Head(list.pending)} /\ req[Head(list.pending)].out = {}
      BY <1>1, <2>1 DEF IspInv, StateInv, InitAccepted
    <3>2. Tail(list.pending) \in Seq(Reqs) /\ Increasing(Tail(list.pending))
          /\ Elems(Tail(list.pending)) = P \ {Head(list.pending)}
      BY <1>0, <3>1, ListFacts, HeadTail DEF OrderInv, P
    <3> QED BY <3>1, <3>2
  <2>2. CASE state # "READY"
    <3>1. list.pending = <<>> /\ crm.has = {}
      <4>1. CASE state = "ACQUIRED"
        BY <4>1 DEF IspInv, StateInv
      <4>2. CASE state = "FLUSHED"
        <5>1. crm.has = {} /\ \A x \in P : req[x].kind = "update"
          BY <4>2 DEF IspInv, StateInv
        <5>2. list.pending # <<>> => Head(list.pending) \in P /\ req[Head(list.pending)].kind = "init"
          BY <1>0, <1>1, ListFacts DEF InitAccepted
        <5> QED BY <5>1, <5>2
      <4> QED BY <1>1, <2>2, <4>1, <4>2
    <3>2. P = {}
      BY <1>0, <3>1, ListFacts
    <3> QED BY <3>1, <3>2, NoElems
  <2> QED BY <2>1, <2>2
<1> HIDE DEF t
<1>6. /\ s \in Seq(Reqs) /\ Increasing(s) /\ Elems(s) = crm.has \cup {r} /\ s # <<>> /\ Head(s) = r
      /\ r \notin crm.has /\ r \in Nat
  <2>1. \A x \in Elems(t) : r < x
    BY <1>1, <1>5
  <2>2. /\ s \in Seq(Reqs) /\ Increasing(s) /\ Elems(s) = Elems(t) \cup {r} /\ s # <<>> /\ Head(s) = r
    BY <1>5, <2>1, ConsList
  <2>3. r \notin crm.has
    BY <1>1, <1>2
  <2> QED BY <1>5, <2>2, <2>3, NoReqIs
<1> HIDE DEF s
<1>7. l \in ListsType /\ l.pending = s /\ l.wait = <<>> /\ l.active = <<>>
  BY <1>0, <1>2, <1>6 DEF IspType, ListsType
<1> HIDE DEF l
<1>8. crm.has \subseteq P
  <2>1. CASE state = "READY" BY <2>1 DEF IspInv, StateInv
  <2>2. CASE state # "READY" BY <1>1, <2>2 DEF IspInv, StateInv
  <2> QED BY <2>1, <2>2
<1>9. /\ Elems(s) \subseteq Taken' /\ crm.has = Elems(s) \ {r}
      /\ isp.last_flush \in Taken' \cup {NoReq}
  BY <1>2, <1>4, <1>6 DEF IspInv, IdInv
<1>10. \A x \in Elems(s) : x > isp.last_flush
  <2>1. isp.last_flush \in Taken \cup {NoReq} /\ isp.last_flush \in Nat
    BY <1>0 DEF IspInv, IdInv, IspType, CtxType
  <2>2. isp.last_flush \notin crm.has
    <3>1. CASE state = "FLUSHED" BY <3>1 DEF IspInv, StateInv
    <3>2. CASE state # "FLUSHED"
      <4>1. \A x \in crm.has : x > isp.last_flush
        BY <1>8, <3>2 DEF IspInv, IdInv
      <4> QED BY <2>1, <4>1
    <3> QED BY <3>1, <3>2
  <2>3. r > isp.last_flush
    <3>1. isp.last_flush = NoReq => r > isp.last_flush
      BY <2>1, NoReqIs
    <3>2. isp.last_flush \in Taken => isp.last_flush < r
      BY <1>1, <2>2
    <3> QED BY <1>6, <2>1, <3>1, <3>2
  <2>4. \A x \in crm.has : x > r /\ x \in Nat
    BY <1>1, <1>2, NoReqIs
  <2> QED BY <1>6, <2>1, <2>3, <2>4
<1>11. Cardinality(out) \in Nat
  BY IspAssumption, FS_Subset, FS_CardinalityType
<1>12. \A x \in Reqs : /\ req'[x].kind = "init" => ~req'[x].recover
                       /\ req'[x].left \subseteq req'[x].out /\ req'[x].acked <= Cardinality(req'[x].out)
  <2>1. \A x \in Reqs : /\ req[x].kind = "init" => ~req[x].recover
                        /\ req[x].left \subseteq req[x].out /\ req[x].acked <= Cardinality(req[x].out)
    BY DEF IspInv, IdInv, ReqInv
  <2> QED BY <1>3, <1>11, <2>1
<1>13. /\ \A x, y \in crm.has : req'[x].recover = req'[y].recover
       /\ \A x \in crm.has : req'[x].kind = "update"
  <2>1. \A x, y \in crm.has : req[x].recover = req[y].recover
    BY <1>2 DEF IspInv, IdInv
  <2>2. \A x \in crm.has : req'[x] = req[x]
    BY <1>2, <1>3, <1>6
  <2> QED BY <1>2, <2>1, <2>2
<1>14. \A x \in Elems(s) : req'[x].acked = 0 /\ req'[x].left = req'[x].out /\ ~req'[x].bubble
  <2>1. \A x \in crm.has : req[x].acked = 0 /\ req[x].left = req[x].out /\ ~req[x].bubble
    BY <1>8 DEF IspInv, ReqInv
  <2>2. \A x \in crm.has : req'[x] = req[x]
    BY <1>2, <1>3, <1>6
  <2> QED BY <1>3, <1>6, <2>1, <2>2
<1>15. \A x \in Taken' : x \notin Elems(s) => req'[x].left = {}
  <2> SUFFICES ASSUME NEW x \in Taken, x # r, x \notin crm.has PROVE req[x].left = {}
    BY <1>2, <1>3, <1>4, <1>6
  <2>1. CASE x \in P
    BY <1>2, <1>5, <2>1 DEF IspInv, ReqInv
  <2>2. CASE x \notin P
    BY <1>2, <2>2 DEF IspInv, ReqInv
  <2> QED BY <2>1, <2>2
<1>16. CASE state = "FLUSHED"
  <2>1. Started(l, req', r)
    BY <1>1, <1>16
  <2> QED BY <1>1, <1>3, <1>6, <1>7, <1>9, <1>10, <1>12, <1>13, <1>14, <1>15, <2>1, StartedStep
<1>17. CASE state # "FLUSHED"
  <2>1. state' = "READY" /\ list' = l /\ isp' = isp /\ hw' = hw /\ holder' = holder /\ crm' = crm /\ errs' = errs
    BY <1>1, <1>17
  <2>2. /\ P' = crm.has \cup {r} /\ W' = {} /\ A' = {} /\ ~Running' /\ ~Applying' /\ \A x : ~Waits(x)'
    BY <1>1, <1>2, <1>6, <1>7, <2>1, NoElems DEF P, W, A, Running, Applying, Waits, Nobody
  <2>3. IspType' BY <1>0, <1>3, <1>7, <2>1 DEF IspType, States
  <2>4. OrderInv' BY <1>6, <1>7, <2>1, <2>2, NoElems DEF OrderInv, Before
  <2>5. StateInv'
    <3>1. holder = Nobody /\ crm.sent = NoReq /\ crm.back = NoReq /\ ~crm.fatal /\ ~crm.trigger
      BY <1>1 DEF IspInv, StateInv
    <3> QED BY <1>2, <1>3, <1>6, <1>7, <1>9, <1>13, <2>1, <2>2, <3>1 DEF StateInv
  <2>6. IdInv' BY <1>6, <1>9, <1>10, <1>12, <1>13, <2>1, <2>2, ZenonT(60) DEF IdInv
  <2>7. HolderInv' BY <1>1, <2>1, <2>2 DEF HolderInv
  <2>8. HwInv' /\ SubInv' /\ BubbleInv' /\ CrmInv' /\ AheadInv'
    BY <2>2 DEF HwInv, SubInv, BubbleInv, CrmInv, AheadInv
  <2>9. ReqInv' BY <1>6, <1>12, <1>14, <1>15, <2>2 DEF ReqInv
  <2> QED BY <2>3, <2>4, <2>5, <2>6, <2>7, <2>8, <2>9 DEF IspInv
<1> QED BY <1>16, <1>17

-----------------------------------------------------------------------------
(* Start of frame                                                             *)

\* What holds before a frame starts: the hardware's buffers are those of active requests that
\* come before the one that is loaded.
LEMMA BeforeFrame ==
  ASSUME IspInv, Running, ~hw.frame
  PROVE  /\ ~hw.rup /\ isp.sub # "HW_ERROR"
         /\ \A x \in Reqs : Waits(x) => hw.loaded = x
         /\ hw.loaded # NoReq => hw.loaded \in Reqs
         /\ hw.loaded # NoReq => hw.loaded \in A \/ Waits(hw.loaded)
         /\ \A p \in Ports : \A x \in Elems(hw.todo[p]) :
              /\ x \in A /\ x \in Reqs /\ p \in req[x].out
              /\ hw.loaded # NoReq => x < hw.loaded
<1>0. IspType /\ OrderInv /\ HwInv /\ SubInv
  BY DEF IspInv
<1>1. ~hw.rup /\ isp.sub # "HW_ERROR"
  BY <1>0 DEF HwInv, SubInv
<1>2. \A x \in Reqs : Waits(x) => hw.loaded = x
  BY <1>0 DEF HwInv
<1>3. P \subseteq Reqs /\ W \subseteq Reqs /\ A \subseteq Reqs
  BY <1>0, ListFacts
<1>4. ASSUME hw.loaded # NoReq
      PROVE  hw.loaded \in Reqs /\ (hw.loaded \in A \/ Waits(hw.loaded))
  <2>1. CASE Waits(hw.loaded)
    <3>1. hw.loaded \in W \/ (Applying /\ holder.req = hw.loaded)
      BY <2>1 DEF Waits, Applying
    <3>2. Applying => holder.req \in P
      BY <1>0, ListFacts DEF IspInv, HolderInv
    <3> QED BY <1>3, <2>1, <3>1, <3>2
  <2>2. CASE ~Waits(hw.loaded)
    BY <1>0, <1>3, <1>4, <2>2 DEF HwInv
  <2> QED BY <2>1, <2>2
<1>5. ASSUME NEW p \in Ports, NEW x \in Elems(hw.todo[p])
      PROVE  /\ x \in A /\ x \in Reqs /\ p \in req[x].out
             /\ hw.loaded # NoReq => x < hw.loaded
  <2>1. x \in Reqs
    BY <1>0, ElemsOf DEF IspType, HwType
  <2>2. (x \in A \/ Waits(x)) /\ p \in req[x].out /\ x # hw.loaded
    BY <1>0 DEF HwInv
  <2>3. x \in A
    BY <1>2, <2>1, <2>2
  <2>4. ASSUME hw.loaded # NoReq PROVE x < hw.loaded
    <3>1. CASE Waits(hw.loaded)
      <4>1. CASE hw.loaded \in W
        BY <1>0, <2>3, <4>1 DEF OrderInv, Before
      <4>2. CASE hw.loaded \notin W
        <5>1. Applying /\ holder.req = hw.loaded
          BY <3>1, <4>2 DEF Waits, Applying
        <5>2. hw.loaded \in P
          BY <1>0, <5>1, ListFacts DEF IspInv, HolderInv
        <5> QED BY <1>0, <2>3, <5>2 DEF OrderInv, Before
      <4> QED BY <4>1, <4>2
    <3>2. CASE ~Waits(hw.loaded)
      <4>1. x <= hw.loaded
        BY <1>0, <2>3, <2>4, <3>2 DEF HwInv
      <4> QED BY <1>4, <2>1, <2>2, <2>4, <4>1, NoReqIs
    <3> QED BY <3>1, <3>2
  <2> QED BY <2>1, <2>2, <2>3, <2>4
<1> QED BY <1>1, <1>2, <1>4, <1>5

\* With a frame the buffers of the loaded request are due.
LEMMA SofStep == ASSUME IspInv, Sof PROVE IspInv'
<1> DEFINE l == hw.loaded
<1>0. IspType /\ OrderInv
  BY DEF IspInv
<1>1. /\ Running /\ ~hw.frame /\ state' = state /\ list' = list /\ req' = req /\ holder' = holder
      /\ crm' = crm /\ errs' = errs
      /\ hw' = [hw EXCEPT !.frame = TRUE, !.cur = l, !.rup = l # NoReq, !.loaded = NoReq,
                  !.todo = [p \in Ports |-> IF l # NoReq /\ p \in req[l].out
                                              THEN Append(hw.todo[p], l) ELSE hw.todo[p]]]
      /\ isp' = [isp EXCEPT !.sub = IF isp.sub = "EPOCH" /\ list.active = <<>> THEN "SOF" ELSE isp.sub]
  BY DEF Sof
<1>2. /\ ~hw.rup /\ isp.sub # "HW_ERROR"
      /\ \A x \in Reqs : Waits(x) => l = x
      /\ l # NoReq => l \in Reqs
      /\ l # NoReq => l \in A \/ Waits(l)
      /\ \A p \in Ports : \A x \in Elems(hw.todo[p]) :
           x \in A /\ x \in Reqs /\ p \in req[x].out /\ (l # NoReq => x < l)
  BY <1>1, BeforeFrame
<1>3. /\ l \in Nat /\ hw \in HwType /\ \A p \in Ports : hw.todo[p] \in Seq(Reqs) /\ Increasing(hw.todo[p])
  BY <1>0, <1>1 DEF IspInv, IspType, HwType, HwInv
<1>4. \A p \in Ports : l # NoReq =>
           /\ Append(hw.todo[p], l) \in Seq(Reqs) /\ Increasing(Append(hw.todo[p], l))
           /\ Elems(Append(hw.todo[p], l)) = Elems(hw.todo[p]) \cup {l}
  BY <1>2, <1>3, AppendList
<1>5. /\ hw' \in HwType /\ hw'.frame /\ hw'.cur = l /\ (hw'.rup <=> l # NoReq) /\ hw'.loaded = NoReq
      /\ \A p \in Ports :
           /\ Increasing(hw'.todo[p])
           /\ Elems(hw'.todo[p]) = Elems(hw.todo[p]) \cup (IF l # NoReq /\ p \in req[l].out THEN {l} ELSE {})
  <2> DEFINE t == [p \in Ports |-> IF l # NoReq /\ p \in req[l].out THEN Append(hw.todo[p], l) ELSE hw.todo[p]]
  <2>1. /\ t \in [Ports -> Seq(Reqs)]
        /\ \A p \in Ports :
             /\ Increasing(t[p])
             /\ Elems(t[p]) = Elems(hw.todo[p]) \cup (IF l # NoReq /\ p \in req[l].out THEN {l} ELSE {})
    BY <1>3, <1>4
  <2> HIDE DEF t
  <2>2. hw' = [hw EXCEPT !.frame = TRUE, !.cur = l, !.rup = (l # NoReq), !.loaded = NoReq, !.todo = t]
    BY <1>1 DEF t
  <2>3. /\ hw' \in HwType /\ hw'.frame /\ hw'.cur = l /\ (hw'.rup <=> l # NoReq) /\ hw'.loaded = NoReq
        /\ hw'.todo = t
    BY <1>3, <2>1, <2>2, NoReqIs DEF HwType
  <2> QED BY <2>1, <2>3
<1>6. /\ isp' \in CtxType /\ isp'.cnt = isp.cnt /\ isp'.process_bubble = isp.process_bubble
      /\ isp'.frame_cnt = isp.frame_cnt /\ isp'.last_applied = isp.last_applied
      /\ isp'.last_flush = isp.last_flush
      /\ isp'.sub = isp.sub \/ (isp.sub = "EPOCH" /\ isp'.sub = "SOF" /\ list.active = <<>>)
  BY <1>0, <1>1 DEF IspType, CtxType, Subs
<1>7. /\ P' = P /\ W' = W /\ A' = A /\ Running' /\ (Applying' <=> Applying) /\ (Flushing' <=> Flushing)
      /\ (Latching' <=> Latching) /\ Ahead' = Ahead /\ Taken' = Taken
      /\ \A x : (Waits(x)' <=> Waits(x)) /\ (Bubbled(x)' <=> Bubbled(x))
  BY <1>1, <1>6 DEF P, W, A, Running, Applying, Flushing, Latching, Ahead, Taken, Waits, Bubbled
<1>8. \A x \in Reqs : Due(x)' = Due(x)
  <2>1. ASSUME NEW x \in Reqs PROVE \A p \in Ports :
          (l = x \/ x \in Elems(hw.todo[p])) /\ p \in req[x].out <=> x \in Elems(hw'.todo[p]) /\ p \in req[x].out
    BY <1>5, NoReqIs
  <2>2. \A x \in Reqs : req[x].out \subseteq Ports
    BY <1>0 DEF IspType, ReqType
  <2>3. ASSUME NEW x \in Reqs PROVE Due(x)' = {p \in req[x].out : x \in Elems(hw'.todo[p])}
    BY <1>1, <1>5, NoReqIs DEF Due
  <2> QED BY <2>1, <2>2, <2>3 DEF Due
<1>9. P \subseteq Reqs /\ W \subseteq Reqs /\ A \subseteq Reqs /\ (list.wait # <<>> => Head(list.wait) \in W)
  BY <1>0, ListFacts
<1>10. IspType' BY <1>0, <1>1, <1>5, <1>6 DEF IspType
<1>11. OrderInv' BY <1>0, <1>1, <1>7 DEF OrderInv
<1>12. StateInv' BY <1>1, <1>7 DEF IspInv, StateInv, Running
<1>13. IdInv' BY <1>1, <1>6, <1>7 DEF IspInv, IdInv
<1>14. HolderInv'
  <2>1. HolderInv BY DEF IspInv
  <2> QED BY <1>1, <1>6, <1>7, <2>1 DEF HolderInv
<1>15. HwInv'
  <2>1. HwInv BY DEF IspInv
  <2>2. crm.trigger \/ holder.op = "apply" => ~hw'.rup
    BY <1>1, <1>5, <2>1 DEF HwInv
  <2>3. \A x \in Reqs : Waits(x)' => hw'.loaded = NoReq /\ hw'.frame /\ hw'.cur = x
    BY <1>2, <1>5, <1>7
  <2>4. \A p \in Ports : \A x \in Elems(hw'.todo[p]) : (x \in A \/ Waits(x)) /\ p \in req[x].out /\ x # NoReq
    BY <1>2, <1>5, NoReqIs
  <2> QED BY <1>1, <1>5, <1>7, <2>2, <2>3, <2>4 DEF HwInv
<1>16. SubInv'
  <2>1. SubInv BY DEF IspInv
  <2>2. ASSUME list.wait # <<>> PROVE hw'.rup
    <3>1. Head(list.wait) \in Reqs /\ Waits(Head(list.wait))
      BY <1>9, <2>2 DEF Waits
    <3> QED BY <1>2, <1>5, <3>1, NoReqIs
  <2> QED BY <1>1, <1>2, <1>6, <1>7, <2>1, <2>2 DEF SubInv
<1>17. BubbleInv'
  <2>1. BubbleInv BY DEF IspInv
  <2> QED BY <1>1, <1>5, <1>6, <1>7, <2>1 DEF BubbleInv
<1>18. ReqInv'
  <2>1. ReqInv BY DEF IspInv
  <2> QED BY <1>1, <1>7, <1>8, <1>9, <2>1 DEF ReqInv
<1>19. CrmInv' BY <1>1, <1>6, <1>7 DEF IspInv, CrmInv
<1>20. AheadInv' BY <1>1, <1>6, <1>7 DEF IspInv, AheadInv
<1> QED BY <1>10, <1>11, <1>12, <1>13, <1>14, <1>15, <1>16, <1>17, <1>18, <1>19, <1>20 DEF IspInv

-----------------------------------------------------------------------------
(* Reg update                                                                 *)

\* What a reg update does in every substate: the request that waits is active, if it has
\* buffers, and nothing waits.
LEMMA RegUpdIs ==
  ASSUME IspInv, RegUpd
  PROVE  /\ list' \in ListsType /\ list'.pending = list.pending /\ list'.wait = <<>>
         /\ Increasing(list'.active) /\ Len(list'.active) <= 2
         /\ W' = {} /\ A' = A \cup {x \in W : req[x].out # {}}
         /\ isp' \in CtxType /\ isp'.cnt = Len(list'.active) /\ isp'.process_bubble = isp.process_bubble
         /\ isp'.frame_cnt = isp.frame_cnt /\ isp'.last_applied = isp.last_applied
         /\ isp'.last_flush = isp.last_flush
         /\ isp'.sub \in {"SOF", "EPOCH", "BUBBLE"} /\ (isp'.sub = "SOF" => list'.active = <<>>)
         /\ Applying \/ isp.process_bubble => isp'.sub = isp.sub
         /\ W # {} => /\ ~Applying /\ ~isp.process_bubble
                      /\ \A x \in W : req[x].kind = "update" \/ req[x].out = {}
<1> DEFINE r == Head(list.wait)
<1>0. IspType /\ OrderInv /\ SubInv /\ Running /\ hw.rup /\ isp \in CtxType /\ list \in ListsType
  BY DEF IspInv, IspType, RegUpd
<1>1. /\ Len(list.active) \in Nat /\ isp.cnt = Len(list.active) /\ Increasing(list.active)
      /\ Len(list.active) <= 2 /\ list.active \in Seq(Reqs)
      /\ isp.sub \in Subs \ {"HALT"} /\ A \subseteq Reqs
  BY <1>0, ListFacts, ElemsOf DEF SubInv, OrderInv, CtxType
<1>2. list.wait # <<>> => /\ r \in W /\ W = {r} /\ r \in Reqs /\ Tail(list.wait) = <<>>
                          /\ r \in Nat /\ \A x \in A : x < r
  BY <1>0, ListFacts, NoReqIs DEF OrderInv, Before
<1>3. /\ list.wait = <<>> <=> W = {}
      /\ <<>> \in Seq(Reqs) /\ Elems(<<>>) = {} /\ Increasing(<<>>) /\ Len(<<>>) = 0
  BY <1>0, ListFacts, NoElems
<1>4. ~(isp.process_bubble /\ isp.sub # "BUBBLE") /\ (isp.process_bubble => list.wait = <<>>)
  BY <1>0 DEF IspInv, BubbleInv
<1> HIDE DEF r
<1>5. CASE Latching
  <2>1. /\ list.wait # <<>> /\ req[r].kind = "update" /\ Len(list.active) <= 1 /\ ~Applying
        /\ ~isp.process_bubble /\ RegUpdInApplied
    BY <1>0, <1>5 DEF SubInv, r, Latching, RegUpd
  <2>2. CASE req[r].out = {}
    <3>1. isp' = [isp EXCEPT !.sub = "EPOCH"] /\ list' = [list EXCEPT !.wait = Tail(list.wait)]
      BY <2>1, <2>2 DEF RegUpdInApplied, r
    <3>2. /\ list'.wait = <<>> /\ list'.pending = list.pending /\ list'.active = list.active
          /\ list' \in ListsType
      BY <1>0, <1>2, <1>3, <2>1, <3>1 DEF ListsType
    <3>3. /\ isp' \in CtxType /\ isp'.cnt = isp.cnt /\ isp'.process_bubble = isp.process_bubble
          /\ isp'.frame_cnt = isp.frame_cnt /\ isp'.last_applied = isp.last_applied
          /\ isp'.last_flush = isp.last_flush /\ isp'.sub = "EPOCH"
      BY <1>0, <3>1 DEF CtxType, Subs
    <3>4. W' = {} /\ A' = A /\ {x \in W : req[x].out # {}} = {}
      BY <1>2, <1>3, <2>1, <2>2, <3>2 DEF W, A
    <3> QED BY <1>1, <1>2, <2>1, <3>2, <3>3, <3>4
  <2>3. CASE req[r].out # {}
    <3>1. /\ isp' = [isp EXCEPT !.sub = "EPOCH", !.cnt = isp.cnt + 1]
          /\ list' = [list EXCEPT !.wait = Tail(list.wait), !.active = Append(list.active, r)]
      BY <2>1, <2>3 DEF RegUpdInApplied, r
    <3>2. /\ Append(list.active, r) \in Seq(Reqs) /\ Increasing(Append(list.active, r))
          /\ Elems(Append(list.active, r)) = A \cup {r}
          /\ Len(Append(list.active, r)) = Len(list.active) + 1
      BY <1>1, <1>2, <2>1, AppendList DEF A
    <3>3. /\ list'.wait = <<>> /\ list'.pending = list.pending /\ list'.active = Append(list.active, r)
          /\ list' \in ListsType
      BY <1>0, <1>2, <1>3, <2>1, <3>1, <3>2 DEF ListsType
    <3>4. /\ isp' \in CtxType /\ isp'.cnt = isp.cnt + 1 /\ isp'.process_bubble = isp.process_bubble
          /\ isp'.frame_cnt = isp.frame_cnt /\ isp'.last_applied = isp.last_applied
          /\ isp'.last_flush = isp.last_flush /\ isp'.sub = "EPOCH"
      <4>1. PICK n \in Int : n = isp.cnt + 1
        BY <1>1
      <4>2. isp' = [isp EXCEPT !.sub = "EPOCH", !.cnt = n]
        BY <3>1, <4>1
      <4>3. /\ isp' \in CtxType /\ isp'.cnt = n /\ isp'.process_bubble = isp.process_bubble
            /\ isp'.frame_cnt = isp.frame_cnt /\ isp'.last_applied = isp.last_applied
            /\ isp'.last_flush = isp.last_flush /\ isp'.sub = "EPOCH"
        BY <1>0, <4>2 DEF CtxType, Subs
      <4> QED BY <4>1, <4>3
    <3>5. W' = {} /\ A' = A \cup {r} /\ {x \in W : req[x].out # {}} = {r}
      BY <1>2, <1>3, <2>1, <2>3, <3>2, <3>3 DEF W, A
    <3> QED BY <1>1, <1>2, <2>1, <3>2, <3>3, <3>4, <3>5
  <2> QED BY <2>2, <2>3
<1>6. CASE ~Latching /\ list.wait # <<>>
  <2>1. isp.sub = "SOF" /\ list.active = <<>> /\ req[r].out = {} /\ ~Applying
    BY <1>0, <1>6 DEF SubInv, r
  <2>2. list' = [list EXCEPT !.wait = Tail(list.wait)] /\ isp' = isp
    BY <1>6, <2>1 DEF RegUpd
  <2>3. /\ list'.wait = <<>> /\ list'.pending = list.pending /\ list'.active = list.active
        /\ list' \in ListsType
    BY <1>0, <1>2, <1>3, <1>6, <2>2 DEF ListsType
  <2>4. W' = {} /\ A' = A /\ {x \in W : req[x].out # {}} = {}
    BY <1>2, <1>3, <1>6, <2>1, <2>3 DEF W, A
  <2> QED BY <1>0, <1>1, <1>2, <1>4, <2>1, <2>2, <2>3, <2>4
<1>7. CASE ~Latching /\ list.wait = <<>>
  <2>1. /\ list' = list
        /\ isp' = IF isp.sub = "HW_ERROR" THEN [isp EXCEPT !.sub = "SOF"] ELSE isp
    BY <1>7 DEF RegUpd, Latching
  <2>2. /\ isp' \in CtxType /\ isp'.cnt = isp.cnt /\ isp'.process_bubble = isp.process_bubble
        /\ isp'.frame_cnt = isp.frame_cnt /\ isp'.last_applied = isp.last_applied
        /\ isp'.last_flush = isp.last_flush
        /\ isp'.sub = IF isp.sub = "HW_ERROR" THEN "SOF" ELSE isp.sub
    BY <1>0, <2>1 DEF CtxType, Subs
  <2>3. W' = {} /\ A' = A /\ W = {}
    BY <1>3, <1>7, <2>1 DEF W, A
  <2>4. isp'.sub \in {"SOF", "EPOCH", "BUBBLE"} /\ (isp'.sub = "SOF" => list.active = <<>>)
    BY <1>0, <1>1, <1>7, <2>2 DEF Latching, Subs, SubInv
  <2>5. Applying \/ isp.process_bubble => isp.sub # "HW_ERROR"
    BY <1>4 DEF IspInv, HolderInv
  <2> QED BY <1>0, <1>1, <1>7, <2>1, <2>2, <2>3, <2>4, <2>5
<1> QED BY <1>5, <1>6, <1>7

\* The request that waited is active, and its buffers are those that are due.
LEMMA RegUpdStep == ASSUME IspInv, RegUpd PROVE IspInv'
<1>0. IspType /\ OrderInv
  BY DEF IspInv
<1>1. /\ Running /\ hw.frame /\ hw.rup /\ hw' = [hw EXCEPT !.rup = FALSE]
      /\ state' = state /\ req' = req /\ holder' = holder /\ crm' = crm /\ errs' = errs
  BY DEF RegUpd
<1>2. /\ list' \in ListsType /\ list'.pending = list.pending /\ list'.wait = <<>>
      /\ Increasing(list'.active) /\ Len(list'.active) <= 2
      /\ W' = {} /\ A' = A \cup {x \in W : req[x].out # {}}
      /\ isp' \in CtxType /\ isp'.cnt = Len(list'.active) /\ isp'.process_bubble = isp.process_bubble
      /\ isp'.frame_cnt = isp.frame_cnt /\ isp'.last_applied = isp.last_applied
      /\ isp'.last_flush = isp.last_flush
      /\ isp'.sub \in {"SOF", "EPOCH", "BUBBLE"} /\ (isp'.sub = "SOF" => list'.active = <<>>)
      /\ Applying \/ isp.process_bubble => isp'.sub = isp.sub
      /\ W # {} => /\ ~Applying /\ ~isp.process_bubble
                   /\ \A x \in W : req[x].kind = "update" \/ req[x].out = {}
  BY RegUpdIs
<1>3. /\ hw' \in HwType /\ hw'.frame /\ hw'.cur = hw.cur /\ ~hw'.rup /\ hw'.loaded = hw.loaded
      /\ hw'.todo = hw.todo /\ hw.loaded = NoReq
  BY <1>0, <1>1 DEF IspInv, HwInv, IspType, HwType
<1>4. /\ P' = P /\ Running' /\ (Applying' <=> Applying) /\ (Flushing' <=> Flushing)
      /\ ~Latching' /\ Ahead' = Ahead /\ Taken' = Taken
      /\ \A x : (Bubbled(x)' <=> Bubbled(x)) /\ Due(x)' = Due(x)
      /\ \A x : Waits(x) => Waits(x)' \/ x \in W
      /\ \A x : Waits(x)' => Waits(x) /\ x \notin W
  BY <1>1, <1>2, <1>3
     DEF P, Running, Applying, Flushing, Latching, Ahead, Taken, Waits, Bubbled, Due
<1>5. P \subseteq Reqs /\ W \subseteq Reqs /\ A \subseteq Reqs /\ A' \cup W' \subseteq A \cup W
      /\ A \subseteq A' /\ (A = {} <=> list.active = <<>>)
  BY <1>0, <1>2, ListFacts
<1>6. \A x \in W : req[x].acked = 0 /\ req[x].left = req[x].out /\ ~Bubbled(x) /\ Due(x) = req[x].out
                   /\ Cardinality(req[x].out) \in Nat
  <2>1. \A x \in W : Cardinality(req[x].out) \in Nat
    <3>1. \A x \in W : req[x].out \subseteq Ports
      BY <1>0, <1>5 DEF IspType, ReqType
    <3> QED BY <3>1, IspAssumption, FS_Subset, FS_CardinalityType
  <2> QED BY <1>5, <2>1 DEF IspInv, ReqInv, Bubbled, Waits
<1>7. IspType' BY <1>0, <1>1, <1>2, <1>3 DEF IspType
<1>8. OrderInv'
  <2>1. OrderInv /\ Len(list'.wait) = 0 BY <1>0, <1>2, NoElems
  <2> QED BY <1>2, <1>4, <1>5, <2>1 DEF OrderInv, Before
<1>9. StateInv'
  <2>1. StateInv BY DEF IspInv
  <2> QED BY <1>1, <1>2, <1>4, <1>5, <2>1 DEF StateInv, Running
<1>10. IdInv' BY <1>1, <1>2, <1>4, <1>5 DEF IspInv, IdInv
<1>11. HolderInv'
  <2>1. HolderInv BY DEF IspInv
  <2>2. Applying => W = {} /\ A' = A /\ isp'.sub = isp.sub
    BY <1>2
  <2>3. Applying => Len(list'.active) <= 1
    <3>1. Applying => isp.cnt = Len(list.active) /\ Len(list.active) <= 1
      BY <1>1, <2>1 DEF HolderInv, IspInv, SubInv
    <3>2. Applying => list'.active = list.active
      BY <2>1, <1>1, <1>2 DEF RegUpd, RegUpdInApplied, HolderInv
    <3> QED BY <3>1, <3>2
  <2> QED BY <1>1, <1>2, <1>4, <2>1, <2>2, <2>3 DEF HolderInv
<1>12. HwInv'
  <2>1. HwInv BY DEF IspInv
  <2>2. \A p \in Ports : \A x \in Elems(hw.todo[p]) : (x \in A' \/ Waits(x)') /\ p \in req[x].out /\ x # hw.loaded
    <3>1. \A p \in Ports : \A x \in Elems(hw.todo[p]) : (x \in A \/ Waits(x)) /\ p \in req[x].out /\ x # hw.loaded
      BY <1>1, <2>1 DEF HwInv
    <3> QED BY <1>2, <1>4, <3>1
  <2> QED BY <1>1, <1>2, <1>3, <1>4, <2>1, <2>2 DEF HwInv
<1>13. SubInv' BY <1>2, <1>4 DEF SubInv
<1>14. BubbleInv'
  <2>1. BubbleInv BY DEF IspInv
  <2>2. \A x \in W : x = isp.last_applied /\ x \in Nat /\ ~Bubbled(x) /\ ~req[x].bubble
    BY <1>1, <1>5, <1>6, <2>1, NoReqIs DEF BubbleInv, IspInv, ReqInv
  <2>3. \A x \in A' : x \in A \/ x \in W
    BY <1>2
  <2> QED BY <1>1, <1>2, <1>3, <1>4, <1>5, <2>1, <2>2, <2>3 DEF BubbleInv
<1>15. ReqInv'
  <2>1. ReqInv BY DEF IspInv
  <2>2. \A x \in A' : /\ req[x].acked + Cardinality(Due(x)) = Cardinality(req[x].out)
                      /\ req[x].left = IF Bubbled(x) THEN req[x].out ELSE Due(x)
                      /\ req[x].out # {} => Due(x) # {}
    <3>1. \A x \in W : req[x].acked + Cardinality(Due(x)) = Cardinality(req[x].out)
      BY <1>6
    <3> QED BY <1>2, <1>6, <2>1, <3>1 DEF ReqInv
  <2>3. \A x \in Taken : x \notin P \cup W' \cup A' => req[x].left = {}
    BY <1>2, <1>6, <2>1 DEF ReqInv
  <2> QED BY <1>1, <1>2, <1>4, <2>1, <2>2, <2>3 DEF ReqInv
<1>16. CrmInv'
  <2>1. CrmInv BY DEF IspInv
  <2> QED BY <1>1, <1>2, <1>4, <1>5, <2>1 DEF CrmInv
<1>17. AheadInv' BY <1>1, <1>2, <1>4 DEF IspInv, AheadInv
<1> QED BY <1>7, <1>8, <1>9, <1>10, <1>11, <1>12, <1>13, <1>14, <1>15, <1>16, <1>17 DEF IspInv

-----------------------------------------------------------------------------
(* Epoch: a bubble                                                            *)

\* What holds at an epoch, with the apply over
LEMMA AtEpoch ==
  ASSUME IspInv, Orderly, Epoch
  PROVE  /\ Running /\ hw.frame /\ ~hw.rup /\ ~Applying
         /\ hw' \in HwType /\ ~hw'.frame /\ hw'.cur = hw.cur /\ ~hw'.rup /\ hw'.loaded = hw.loaded
         /\ hw'.todo = hw.todo
         /\ \A p \in Ports : Elems(hw.todo[p]) \subseteq {hw.cur}
         /\ state' = state /\ holder' = holder /\ errs' = errs
         /\ (Latching /\ Bubble) \/ (isp.sub \in {"SOF", "EPOCH", "BUBBLE"} /\ NotifySof)
<1>1. /\ Running /\ hw.frame /\ ~hw.rup /\ holder.op \notin {"apply", "config"}
      /\ \A p \in Ports : Elems(hw.todo[p]) \subseteq {hw.cur}
      /\ hw' = [hw EXCEPT !.frame = FALSE] /\ hw \in HwType
      /\ state' = state /\ holder' = holder /\ errs' = errs
  BY DEF Epoch, Orderly, IspInv, IspType
<1>2. /\ hw' \in HwType /\ ~hw'.frame /\ hw'.cur = hw.cur /\ ~hw'.rup /\ hw'.loaded = hw.loaded
      /\ hw'.todo = hw.todo
  BY <1>1 DEF HwType
<1>3. /\ isp.sub \in {"SOF", "EPOCH", "BUBBLE"} \/ Latching
      /\ Latching => list.wait # <<>>
  BY <1>1 DEF IspInv, IspType, CtxType, Subs, SubInv, Latching
<1>4. (Latching /\ Bubble) \/ (isp.sub \in {"SOF", "EPOCH", "BUBBLE"} /\ NotifySof)
  <2>1. CASE Latching
    <3>1. list.wait # <<>> /\ isp.sub \in {"APPLIED", "BUBBLE_APPLIED"} /\ isp.sub \notin {"SOF", "EPOCH", "BUBBLE"}
      BY <1>3, <2>1 DEF Latching
    <3>2. Bubble
      BY <3>1 DEF Epoch
    <3> QED BY <2>1, <3>2
  <2>2. CASE isp.sub \in {"SOF", "EPOCH", "BUBBLE"}
    BY <2>2 DEF Epoch
  <2> QED BY <1>3, <2>1, <2>2
<1> QED BY <1>1, <1>2, <1>4 DEF Applying

\* The request that waits is active, and its bubble is processed if it is reported.
LEMMA BubbleStep == ASSUME IspInv, Orderly, Epoch, Latching, Bubble PROVE IspInv'
<1>0. IspType /\ OrderInv
  BY DEF IspInv
<1>1. /\ Running /\ hw.frame /\ ~hw.rup /\ ~Applying
      /\ hw' \in HwType /\ ~hw'.frame /\ hw'.cur = hw.cur /\ ~hw'.rup /\ hw'.loaded = hw.loaded
      /\ hw'.todo = hw.todo /\ state' = state /\ holder' = holder /\ errs' = errs
  BY AtEpoch
<1> PICK r \in Reqs : r = Head(list.wait)
  BY <1>0, <1>1, ListFacts DEF IspInv, SubInv
<1>2. /\ list.wait # <<>> /\ req[r].kind = "update" /\ Len(list.active) <= 1
      /\ ~crm.trigger /\ ~isp.process_bubble /\ isp.cnt = Len(list.active)
  BY <1>1 DEF IspInv, SubInv
<1>3. /\ r \in W /\ W = {r} /\ r \in Reqs /\ r \in Nat /\ r # NoReq /\ Tail(list.wait) = <<>>
      /\ P \subseteq Reqs /\ A \subseteq Reqs /\ r \notin P /\ r \notin A
      /\ (\A x \in A : x < r /\ x # r) /\ \A x \in P : r < x
  <2>1. /\ r \in W /\ W = {r} /\ r \in Reqs /\ r \in Nat /\ r # NoReq /\ Tail(list.wait) = <<>>
        /\ P \subseteq Reqs /\ A \subseteq Reqs /\ r \notin P /\ r \notin A
    BY <1>0, <1>2, ListFacts, NoReqIs
  <2>2. (\A x \in A : x < r) /\ \A x \in P : r < x
    BY <1>0, <2>1 DEF OrderInv, Before
  <2> QED BY <2>1, <2>2
<1>4. /\ list' = [list EXCEPT !.wait = Tail(list.wait), !.active = Append(list.active, r)]
      /\ req' = [req EXCEPT ![r].bubble = TRUE]
      /\ crm' = IF req[r].report THEN [crm EXCEPT !.back = r] ELSE crm
  BY DEF Bubble
<1>5. /\ list' \in ListsType /\ list'.pending = list.pending /\ list'.wait = <<>>
      /\ Increasing(list'.active) /\ Len(list'.active) = Len(list.active) + 1 /\ Len(list'.active) <= 2
      /\ list'.active # <<>>
      /\ P' = P /\ W' = {} /\ A' = A \cup {r}
  <2>1. list.active \in Seq(Reqs) /\ Increasing(list.active) /\ Len(list.active) \in Nat
    BY <1>0, ListFacts, ElemsOf DEF OrderInv
  <2>2. /\ Append(list.active, r) \in Seq(Reqs) /\ Increasing(Append(list.active, r))
        /\ Elems(Append(list.active, r)) = A \cup {r} /\ Append(list.active, r) # <<>>
        /\ Len(Append(list.active, r)) = Len(list.active) + 1
    BY <1>3, <2>1, AppendList DEF A
  <2>3. /\ list'.wait = <<>> /\ list'.pending = list.pending /\ list'.active = Append(list.active, r)
        /\ list' \in ListsType
    BY <1>0, <1>3, <1>4, <2>2, NoElems DEF IspType, ListsType
  <2> QED BY <1>2, <2>1, <2>2, <2>3, NoElems DEF P, W, A
<1>6. /\ isp' \in CtxType /\ isp'.cnt = Len(list'.active) /\ (isp'.process_bubble <=> req[r].report)
      /\ isp'.frame_cnt = isp.frame_cnt /\ isp'.last_applied = isp.last_applied
      /\ isp'.last_flush = isp.last_flush /\ isp'.sub = "BUBBLE"
  <2>1. PICK n \in Int : n = isp.cnt + 1
    BY <1>0 DEF IspType, CtxType
  <2>2. PICK b \in BOOLEAN : b <=> req[r].report
    OBVIOUS
  <2>3. isp' = [isp EXCEPT !.sub = "BUBBLE", !.cnt = n, !.process_bubble = b]
    <3>1. isp.process_bubble = FALSE /\ req[r].report \in BOOLEAN /\ b = req[r].report
      BY <1>0, <1>2, <1>3, <2>2 DEF IspType, CtxType, ReqType
    <3>2. isp' = [isp EXCEPT !.sub = "BUBBLE", !.cnt = isp.cnt + 1,
                             !.process_bubble = isp.process_bubble \/ req[r].report]
      BY DEF Bubble
    <3> QED BY <2>1, <3>1, <3>2
  <2>4. /\ isp' \in CtxType /\ isp'.cnt = n /\ (isp'.process_bubble <=> b)
        /\ isp'.frame_cnt = isp.frame_cnt /\ isp'.last_applied = isp.last_applied
        /\ isp'.last_flush = isp.last_flush /\ isp'.sub = "BUBBLE"
    BY <1>0, <2>3 DEF IspType, CtxType, Subs
  <2> QED BY <1>2, <1>5, <2>1, <2>2, <2>4
<1>7. /\ req' \in [Reqs -> ReqType]
      /\ \A x \in Reqs :
           /\ req'[x].left = req[x].left
           /\ req'[x].out = req[x].out /\ req'[x].kind = req[x].kind
           /\ req'[x].acked = req[x].acked /\ (req'[x].bubble <=> x = r \/ req[x].bubble)
           /\ req'[x].report = req[x].report /\ req'[x].recover = req[x].recover
  <2>1. req \in [Reqs -> ReqType]
    BY <1>0 DEF IspType
  <2>2. req'[r] = [req[r] EXCEPT !.bubble = TRUE] /\ req[r] \in ReqType
        /\ \A x \in Reqs : x # r => req'[x] = req[x]
    BY <1>3, <1>4, <2>1
  <2>3. /\ req'[r] \in ReqType
        /\ req'[r].left = req[r].left /\ req'[r].out = req[r].out /\ req'[r].kind = req[r].kind
        /\ req'[r].acked = req[r].acked /\ req'[r].bubble
        /\ req'[r].report = req[r].report /\ req'[r].recover = req[r].recover
    BY <2>2 DEF ReqType
  <2>4. req' \in [Reqs -> ReqType]
    BY <1>3, <1>4, <2>1, <2>2, <2>3
  <2> QED BY <2>2, <2>3, <2>4
<1>8. /\ crm'.has = crm.has /\ crm'.sent = crm.sent /\ crm'.back = (IF req[r].report THEN r ELSE crm.back)
      /\ crm'.fatal = crm.fatal /\ crm'.trigger = crm.trigger /\ crm' \in CrmType
  <2>1. CASE req[r].report
    <3>1. crm' = [crm EXCEPT !.back = r]
      BY <1>4, <2>1
    <3> QED BY <1>0, <1>3, <2>1, <3>1 DEF IspType, CrmType
  <2>2. CASE ~req[r].report
    BY <1>0, <1>4, <2>2 DEF IspType
  <2> QED BY <2>1, <2>2
<1>9. /\ Running' /\ ~Applying' /\ (Flushing' <=> Flushing) /\ ~Latching' /\ Taken' = Taken
      /\ Ahead' = Ahead
      /\ \A x : (Waits(x) <=> x = r) /\ ~Waits(x)'
      /\ \A x \in Reqs : Due(x)' = Due(x) /\ (x # r => (Bubbled(x)' <=> Bubbled(x)))
      /\ Bubbled(r)' <=> req[r].report
  <2>1. /\ Running' /\ ~Applying' /\ (Flushing' <=> Flushing) /\ ~Latching' /\ Taken' = Taken
        /\ Ahead' = Ahead
    BY <1>1, <1>6, <1>7, <1>8 DEF Running, Applying, Flushing, Latching, Taken, Ahead
  <2>2. \A x : (Waits(x) <=> x = r) /\ ~Waits(x)'
    BY <1>1, <1>3, <1>5 DEF Applying, Waits
  <2>3. \A x \in Reqs : Due(x)' = Due(x)
    BY <1>1, <1>7 DEF Due
  <2>4. \A x \in Reqs : x # r => (Bubbled(x)' <=> Bubbled(x))
    BY <1>7 DEF Bubbled
  <2>5. Bubbled(r)' <=> req[r].report
    BY <1>3, <1>7 DEF Bubbled
  <2> QED BY <2>1, <2>2, <2>3, <2>4, <2>5
<1>10. r = isp.last_applied /\ \A x \in A : ~Bubbled(x)
  BY <1>1, <1>2, <1>3 DEF IspInv, BubbleInv
<1>11. IspType' BY <1>0, <1>1, <1>5, <1>6, <1>7, <1>8 DEF IspType
<1>12. OrderInv'
  <2>1. OrderInv /\ Len(list'.wait) = 0 BY <1>0, <1>5, NoElems
  <2> QED BY <1>3, <1>5, <2>1 DEF OrderInv, Before
<1>13. StateInv'
  <2>1. StateInv /\ crm.has \subseteq Reqs BY <1>0 DEF IspInv, IspType, CrmType
  <2>2. /\ \A x \in P : req'[x].kind = "update"
        /\ \A x \in crm.has : req'[x].kind = "update"
    BY <1>1, <1>3, <1>7, <2>1, ZenonT(60) DEF StateInv, Running
  <2>3. P \cup W \cup A \subseteq Taken
    BY <2>1 DEF StateInv
  <2>4. P' \cup W' \cup A' \subseteq Taken' /\ state' = "ACTIVATED"
    BY <1>1, <1>3, <1>5, <1>9, <2>3 DEF Running
  <2> QED BY <1>5, <1>8, <1>9, <2>2, <2>4 DEF StateInv
<1>14. IdInv'
  <2>1. IdInv /\ crm.has \subseteq Reqs BY <1>0 DEF IspInv, IspType, CrmType
  <2>2. P' \cup W' \cup A' = P \cup W \cup A /\ W' \cup A' = W \cup A
    BY <1>3, <1>5
  <2>3. crm.has \cup W \cup A \subseteq Reqs
    BY <1>3, <2>1
  <2>4. \A x, y \in crm.has \cup W \cup A :
          req'[x].kind = "update" /\ req'[y].kind = "update" => req'[x].recover = req'[y].recover
    BY <1>7, <2>1, <2>3 DEF IdInv
  <2>5. \A x, y \in crm'.has \cup W' \cup A' :
          req'[x].kind = "update" /\ req'[y].kind = "update" => req'[x].recover = req'[y].recover
    BY <1>8, <2>2, <2>4
  <2>6. /\ state' # "FLUSHED" => \A x \in P' \cup W' \cup A' : x > isp'.last_flush
        /\ isp'.last_flush \in Taken' \cup {NoReq}
        /\ \A x \in Reqs : req'[x].kind = "init" => ~req'[x].recover
    BY <1>1, <1>6, <1>7, <1>9, <2>1, <2>2 DEF IdInv
  <2> QED BY <2>5, <2>6 DEF IdInv
<1>15. HolderInv'
  <2>1. HolderInv BY DEF IspInv
  <2> QED BY <1>1, <1>9, <2>1 DEF HolderInv
<1>16. HwInv'
  <2>1. HwInv BY DEF IspInv
  <2>2. hw.loaded # NoReq => hw.loaded = r
    BY <1>1, <1>9, <2>1 DEF HwInv
  <2>3. \A x \in A' : x <= r
    BY <1>3, <1>5, NoReqIs
  <2>4. holder.op # "apply"
    BY <1>1 DEF Applying
  <2>5. \A p \in Ports : \A x \in Elems(hw.todo[p]) : x \in A' /\ x \in Reqs /\ p \in req[x].out /\ x # hw.loaded
    <3>1. \A p \in Ports : \A x \in Elems(hw.todo[p]) : (x \in A \/ Waits(x)) /\ p \in req[x].out /\ x # hw.loaded
      BY <1>1, <2>1 DEF HwInv
    <3>2. \A p \in Ports : \A x \in Elems(hw.todo[p]) : x \in A \/ x = r
      BY <1>9, <3>1
    <3> QED BY <1>3, <1>5, <3>1, <3>2
  <2>6. \A p \in Ports : Increasing(hw.todo[p])
    BY <1>1, <2>1 DEF HwInv
  <2> QED BY <1>1, <1>2, <1>5, <1>7, <1>8, <1>9, <2>2, <2>3, <2>4, <2>5, <2>6 DEF HwInv
<1>17. SubInv' BY <1>5, <1>6, <1>9 DEF SubInv
<1>18. BubbleInv'
  <2>1. BubbleInv /\ isp.frame_cnt \in Nat BY <1>0 DEF IspInv, IspType, CtxType
  <2>2. ~(isp.frame_cnt > 0) BY <1>1, <1>2, <2>1 DEF BubbleInv
  <2>3. \A x \in A' : x <= r /\ (Bubbled(x)' => x = r)
    <3>1. \A x \in A' : x \in Reqs /\ x <= r /\ (x \in A \/ x = r)
      BY <1>3, <1>5, NoReqIs
    <3>2. \A x \in A : ~Bubbled(x)'
      BY <1>3, <1>9, <1>10
    <3> QED BY <3>1, <3>2
  <2>4. isp'.process_bubble <=> \E x \in A' : Bubbled(x)'
    BY <1>3, <1>5, <1>6, <1>9, <1>10
  <2>5. \A x \in A' : /\ req'[x].kind = "update" => req'[x].report = req'[x].recover
                      /\ req'[x].kind = "init" => ~req'[x].bubble
    BY <1>1, <1>2, <1>3, <1>5, <1>7, <2>1 DEF BubbleInv
  <2>6. isp.last_applied \in Taken
    BY <1>1, <2>1 DEF BubbleInv
  <2> QED BY <1>1, <1>5, <1>6, <1>9, <1>10, <2>2, <2>3, <2>4, <2>5, <2>6 DEF BubbleInv
<1>19. ReqInv'
  <2>1. ReqInv BY DEF IspInv
  <2>2. /\ req[r].acked = 0 /\ req[r].left = req[r].out /\ Due(r) = req[r].out
        /\ Cardinality(req[r].out) \in Nat
    <3>1. Cardinality(req[r].out) \in Nat
      <4>1. req[r].out \subseteq Ports
        BY <1>0, <1>3 DEF IspType, ReqType
      <4> QED BY <4>1, IspAssumption, FS_Subset, FS_CardinalityType
    <3> QED BY <1>3, <1>9, <2>1, <3>1 DEF ReqInv
  <2>3. \A x \in A' : /\ req'[x].acked + Cardinality(Due(x)') = Cardinality(req'[x].out)
                      /\ req'[x].left = IF Bubbled(x)' THEN req'[x].out ELSE Due(x)'
                      /\ req'[x].out # {} => Due(x)' # {}
    <3>1. ASSUME NEW x \in A
          PROVE  /\ req'[x].acked + Cardinality(Due(x)') = Cardinality(req'[x].out)
                 /\ req'[x].left = IF Bubbled(x)' THEN req'[x].out ELSE Due(x)'
                 /\ req'[x].out # {} => Due(x)' # {}
      BY <1>3, <1>7, <1>9, <2>1, <3>1 DEF ReqInv
    <3>2. /\ req'[r].acked + Cardinality(Due(r)') = Cardinality(req'[r].out)
          /\ req'[r].left = IF Bubbled(r)' THEN req'[r].out ELSE Due(r)'
          /\ req'[r].out # {} => Due(r)' # {}
      BY <1>3, <1>7, <1>9, <2>2
    <3> QED BY <1>5, <3>1, <3>2
  <2>4. \A x \in P : req'[x].acked = 0 /\ req'[x].left = req'[x].out /\ ~req'[x].bubble
    BY <1>3, <1>7, <2>1 DEF ReqInv
  <2>5. \A x \in Reqs : req'[x].left \subseteq req'[x].out /\ req'[x].acked <= Cardinality(req'[x].out)
    BY <1>7, <2>1 DEF ReqInv
  <2>6. \A x \in Taken : x \notin P \cup A' => req'[x].left = {}
    <3> SUFFICES ASSUME NEW x \in Taken, x \notin P, x \notin A' PROVE req'[x].left = {}
      OBVIOUS
    <3>1. x \in Reqs /\ x \notin W /\ x \notin A /\ x # r
      BY <1>3, <1>5 DEF Taken
    <3>2. req[x].left = {}
      BY <2>1, <3>1 DEF ReqInv
    <3> QED BY <1>7, <3>1, <3>2
  <2> QED BY <1>5, <1>9, <2>3, <2>4, <2>5, <2>6 DEF ReqInv
<1>20. CrmInv'
  <2>1. CrmInv BY DEF IspInv
  <2>2. ASSUME ~Flushing
        PROVE  /\ crm.sent = r /\ crm.back = NoReq /\ P \subseteq crm.has
               /\ \A x \in A' : req'[x].kind = "update" => x \in crm.has
    BY <1>1, <1>3, <1>5, <1>7, <1>10, <2>1, <2>2 DEF CrmInv
  <2>3. \A x \in A' : x <= r
    BY <1>3, <1>5, NoReqIs
  <2> QED BY <1>5, <1>6, <1>8, <1>9, <1>10, <1>3, <2>2, <2>3 DEF CrmInv
<1>21. AheadInv'
  <2>1. ASSUME ~Flushing, ~crm.fatal
        PROVE  Ahead = P /\ crm.back = NoReq
    BY <1>1, <1>2, <2>1 DEF AheadInv, CrmInv, IspInv
  <2> QED BY <1>3, <1>5, <1>6, <1>8, <1>9, <2>1 DEF AheadInv
<1> QED BY <1>11, <1>12, <1>13, <1>14, <1>15, <1>16, <1>17, <1>18, <1>19, <1>20, <1>21 DEF IspInv

-----------------------------------------------------------------------------
(* Epoch: the notification                                                    *)

\* What holds when NotifySof runs: the hardware has latched what it was given.
LEMMA AtNotify ==
  ASSUME IspInv, Orderly, Epoch, isp.sub \in {"SOF", "EPOCH", "BUBBLE"}
  PROVE  /\ list.wait = <<>> /\ W = {} /\ hw.loaded = NoReq /\ \A x : ~Waits(x)
         /\ ~Latching /\ Len(list.active) \in Nat /\ Len(list.active) <= 2 /\ isp.cnt = Len(list.active)
         /\ isp.process_bubble => list.active # <<>>
<1>0. IspType /\ OrderInv
  BY DEF IspInv
<1>1. Running /\ hw.frame /\ ~hw.rup /\ ~Applying
  BY AtEpoch
<1>2. ~Latching
  BY DEF Latching
<1>3. list.wait = <<>> /\ isp.cnt = Len(list.active)
  BY <1>1, <1>2 DEF IspInv, SubInv
<1>4. W = {} /\ \A x : ~Waits(x)
  BY <1>0, <1>1, <1>3, ListFacts DEF Waits, Applying
<1>5. hw.loaded = NoReq
  BY <1>1, <1>4 DEF IspInv, HwInv
<1>6. isp.process_bubble => list.active # <<>>
  BY <1>0, <1>1, ListFacts DEF IspInv, BubbleInv
<1>7. Len(list.active) \in Nat /\ Len(list.active) <= 2
  BY <1>0, ListFacts, ElemsOf DEF OrderInv
<1> QED BY <1>2, <1>3, <1>4, <1>5, <1>6, <1>7

\* The epoch is reported, and a bubble waits for its buffers.
Notified(n) ==
  /\ list' = list /\ req' = req
  /\ crm' = [crm EXCEPT !.trigger = TRUE]
  /\ isp' = [isp EXCEPT !.frame_cnt = n]
  /\ n > 0 => isp.process_bubble

\* An epoch that moves no request keeps the invariant.
LEMMA NotifyOnly ==
  ASSUME IspInv, Orderly, Epoch, isp.sub \in {"SOF", "EPOCH", "BUBBLE"}, NEW n \in Nat, Notified(n)
  PROVE  IspInv'
<1>0. IspType /\ OrderInv
  BY DEF IspInv
<1>1. /\ Running /\ hw.frame /\ ~hw.rup /\ ~Applying
      /\ hw' \in HwType /\ ~hw'.frame /\ hw'.cur = hw.cur /\ ~hw'.rup /\ hw'.loaded = hw.loaded
      /\ hw'.todo = hw.todo /\ state' = state /\ holder' = holder /\ errs' = errs
  BY AtEpoch
<1>2. list.wait = <<>> /\ W = {} /\ hw.loaded = NoReq /\ (\A x : ~Waits(x)) /\ ~Latching
  BY AtNotify
<1>3. /\ crm'.has = crm.has /\ crm'.sent = crm.sent /\ crm'.back = crm.back
      /\ crm'.fatal = crm.fatal /\ crm' \in CrmType
      /\ list' = list /\ req' = req /\ (n > 0 => isp.process_bubble)
  BY <1>0 DEF IspType, CrmType, Notified
<1>4. /\ isp' \in CtxType /\ isp'.cnt = isp.cnt /\ (isp'.process_bubble <=> isp.process_bubble)
      /\ isp'.frame_cnt = n /\ isp'.last_applied = isp.last_applied
      /\ isp'.last_flush = isp.last_flush /\ isp'.sub = isp.sub
  BY <1>0 DEF IspType, CtxType, Notified
<1>5. /\ P' = P /\ W' = W /\ A' = A /\ Running' /\ ~Applying' /\ (Flushing' <=> Flushing)
      /\ ~Latching' /\ Ahead' = Ahead /\ Taken' = Taken
      /\ (\A x : Bubbled(x)' <=> Bubbled(x))
      /\ (\A x : ~Waits(x)')
      /\ \A x : Due(x)' = Due(x)
  BY <1>1, <1>2, <1>3, <1>4
     DEF P, W, A, Running, Applying, Flushing, Latching, Ahead, Taken, Bubbled, Waits, Due
<1>6. IspType' BY <1>0, <1>1, <1>3, <1>4 DEF IspType
<1>7. OrderInv' BY <1>0, <1>3, <1>5 DEF OrderInv
<1>8. StateInv'
  <2>1. StateInv BY DEF IspInv
  <2> QED BY <1>1, <1>3, <1>5, <2>1 DEF StateInv, Running
<1>9. IdInv' BY <1>1, <1>3, <1>4, <1>5 DEF IspInv, IdInv
<1>10. HolderInv' BY <1>1, <1>5 DEF IspInv, HolderInv
<1>11. HwInv'
  <2>1. HwInv BY DEF IspInv
  <2> QED BY <1>1, <1>2, <1>3, <1>5, <2>1 DEF HwInv
<1>12. SubInv'
  <2>1. SubInv BY DEF IspInv
  <2> QED BY <1>1, <1>2, <1>3, <1>4, <1>5, <2>1 DEF SubInv
<1>13. BubbleInv'
  <2>1. BubbleInv BY DEF IspInv
  <2> QED BY <1>1, <1>2, <1>3, <1>4, <1>5, <2>1 DEF BubbleInv
<1>14. ReqInv' BY <1>3, <1>5 DEF IspInv, ReqInv
<1>15. CrmInv'
  <2>1. CrmInv BY DEF IspInv
  <2> QED BY <1>1, <1>3, <1>4, <1>5, <2>1 DEF CrmInv
<1>16. AheadInv'
  <2>1. AheadInv BY DEF IspInv
  <2> QED BY <1>1, <1>3, <1>4, <1>5, <2>1 DEF AheadInv
<1> QED BY <1>6, <1>7, <1>8, <1>9, <1>10, <1>11, <1>12, <1>13, <1>14, <1>15, <1>16 DEF IspInv

\* A bubble whose buffers have not come: when the buffers of a frame are done by the epoch of the
\* next one, that is a request without buffers, and the only active one.
LEMMA AtAgain ==
  ASSUME IspInv, Orderly, Epoch, isp.sub \in {"SOF", "EPOCH", "BUBBLE"},
         isp.process_bubble, isp.frame_cnt >= 1, NEW r, r = Head(list.active), req[r].bubble
  PROVE  /\ list.active # <<>> /\ A = {r} /\ r \in Reqs /\ r = isp.last_applied /\ Bubbled(r)
         /\ req[r].kind = "update" /\ Len(list.active) = 1 /\ Tail(list.active) = <<>>
         /\ req[r].out = {} /\ req[r].acked = 0 /\ req[r].left = {}
         /\ \A p \in Ports : Elems(hw.todo[p]) = {}
<1>0. IspType /\ OrderInv /\ BubbleInv /\ ReqInv /\ HwInv
  BY DEF IspInv
<1>1. /\ Running /\ hw.frame /\ \A p \in Ports : Elems(hw.todo[p]) \subseteq {hw.cur}
  BY AtEpoch
<1>2. list.wait = <<>> /\ W = {} /\ hw.loaded = NoReq /\ list.active # <<>>
  BY AtNotify
<1>3. r \in A /\ r \in Reqs /\ A \subseteq Reqs /\ list.active \in Seq(Reqs) /\ \A x \in A : r <= x
  BY <1>0, <1>2, ListFacts
<1>4. Bubbled(r) /\ req[r].kind = "update"
  <2>1. PICK l \in A : Bubbled(l)
    BY <1>0, <1>1 DEF BubbleInv
  <2>2. A \subseteq Taken
    BY DEF IspInv, StateInv
  <2>3. req[l].kind = "update" /\ req[r].kind = "update"
    BY <1>0, <1>1, <1>3, <2>1, <2>2 DEF BubbleInv, Bubbled, Taken, IspType, ReqType
  <2>4. /\ req[l].recover = req[r].recover /\ req[l].report = req[l].recover
        /\ req[r].report = req[r].recover
    BY <1>0, <1>1, <1>3, <2>3 DEF IspInv, IdInv, BubbleInv
  <2> QED BY <2>1, <2>3, <2>4 DEF Bubbled
<1>5. r = isp.last_applied /\ A = {r}
  <2>1. r = isp.last_applied /\ \A x \in A : x <= isp.last_applied
    BY <1>0, <1>1, <1>3, <1>4 DEF BubbleInv
  <2> QED BY <1>3, <2>1, NoReqIs
<1>6. \A p \in Ports : Elems(hw.todo[p]) = {}
  <2>1. hw.cur = NoReq
    <3>1. isp.frame_cnt > 0
      BY <1>0 DEF IspType, CtxType
    <3> QED BY <1>0, <1>1, <3>1 DEF BubbleInv
  <2>2. \A p \in Ports : Elems(hw.todo[p]) \subseteq Reqs
    BY <1>0, ElemsOf DEF IspType, HwType
  <2> QED BY <1>1, <2>1, <2>2, NoReqIs
<1>7. Due(r) = {} /\ req[r].out = {} /\ req[r].left = {} /\ req[r].acked = 0
  <2>1. Due(r) = {}
    <3>1. req[r].out \subseteq Ports
      BY <1>0, <1>3 DEF IspType, ReqType
    <3> QED BY <1>2, <1>3, <1>6, <3>1, NoReqIs DEF Due
  <2>2. req[r].out = {}
    BY <1>0, <1>3, <2>1 DEF ReqInv
  <2>3. req[r].left = {} /\ req[r].acked <= 0 /\ req[r].acked \in Nat
    <3>1. Cardinality(req[r].out) = 0
      BY <2>2, FS_EmptySet
    <3>2. req[r].acked \in Nat
      BY <1>0, <1>3 DEF IspType, ReqType
    <3> QED BY <1>0, <1>3, <2>2, <3>1, <3>2 DEF ReqInv
  <2> QED BY <2>1, <2>2, <2>3
<1>8. Len(list.active) = 1 /\ Tail(list.active) = <<>>
  <2>1. Elems(Tail(list.active)) = {} /\ Tail(list.active) \in Seq(Reqs)
        /\ Len(Tail(list.active)) = Len(list.active) - 1
    BY <1>0, <1>2, <1>3, <1>5, HeadTail DEF OrderInv, A
  <2>2. Tail(list.active) = <<>> /\ Len(Tail(list.active)) = 0
    BY <2>1, ElemsOf
  <2>3. Len(list.active) \in Nat
    BY <1>3, ElemsOf
  <2> QED BY <2>1, <2>2, <2>3
<1> QED BY <1>2, <1>3, <1>4, <1>5, <1>6, <1>7, <1>8

\* The request goes back to the pending list.
NotifiedAgain(r) ==
  /\ crm' = [crm EXCEPT !.trigger = TRUE]
  /\ isp' = [isp EXCEPT !.process_bubble = FALSE, !.frame_cnt = 0, !.cnt = isp.cnt - 1]
  /\ list' = [list EXCEPT !.active = Tail(list.active), !.pending = <<r>> \o list.pending]
  /\ req' = [req EXCEPT ![r].bubble = FALSE, ![r].acked = 0]

\* The bubble is the least request, and goes back to the head of the pending list.
LEMMA NotifyAgain ==
  ASSUME IspInv, Orderly, Epoch, isp.sub \in {"SOF", "EPOCH", "BUBBLE"},
         isp.process_bubble, isp.frame_cnt >= 1, NEW r, r = Head(list.active), req[r].bubble,
         NotifiedAgain(r)
  PROVE  IspInv'
<1>0. IspType /\ OrderInv
  BY DEF IspInv
<1>1. /\ Running /\ hw.frame /\ ~hw.rup /\ ~Applying
      /\ hw' \in HwType /\ ~hw'.frame /\ hw'.cur = hw.cur /\ ~hw'.rup /\ hw'.loaded = hw.loaded
      /\ hw'.todo = hw.todo /\ state' = state /\ holder' = holder /\ errs' = errs
  BY AtEpoch
<1>2. list.wait = <<>> /\ W = {} /\ hw.loaded = NoReq /\ (\A x : ~Waits(x)) /\ ~Latching
      /\ isp.cnt = Len(list.active)
  BY AtNotify
<1>3. /\ list.active # <<>> /\ A = {r} /\ r \in Reqs /\ r = isp.last_applied /\ Bubbled(r)
      /\ req[r].kind = "update" /\ Len(list.active) = 1 /\ Tail(list.active) = <<>>
      /\ req[r].out = {} /\ req[r].acked = 0 /\ req[r].left = {}
      /\ \A p \in Ports : Elems(hw.todo[p]) = {}
  BY AtAgain
<1>4. /\ crm'.has = crm.has /\ crm'.sent = crm.sent /\ crm'.back = crm.back
      /\ crm'.fatal = crm.fatal /\ crm' \in CrmType
  BY <1>0 DEF IspType, CrmType, NotifiedAgain
<1>5. /\ isp' \in CtxType /\ isp'.cnt = 0 /\ ~isp'.process_bubble
      /\ isp'.frame_cnt = 0 /\ isp'.last_applied = isp.last_applied
      /\ isp'.last_flush = isp.last_flush /\ isp'.sub = isp.sub
  <2>1. isp' = [isp EXCEPT !.process_bubble = FALSE, !.frame_cnt = 0, !.cnt = 0]
    BY <1>2, <1>3 DEF NotifiedAgain
  <2>2. isp \in CtxType
    BY <1>0 DEF IspType
  <2>3. 0 \in Nat /\ 0 \in Int /\ FALSE \in BOOLEAN
    OBVIOUS
  <2> QED BY <2>1, <2>2, <2>3 DEF CtxType
<1>6. /\ P \subseteq Reqs /\ list.pending \in Seq(Reqs) /\ Increasing(list.pending) /\ r \in Nat
      /\ r \notin P /\ \A x \in P : r < x
  BY <1>0, <1>3, ListFacts, NoReqIs DEF OrderInv, Before
<1>7. /\ list' \in ListsType /\ list'.wait = <<>> /\ list'.active = <<>>
      /\ Increasing(list'.pending) /\ list'.pending # <<>> /\ Head(list'.pending) = r
      /\ P' = {r} \cup P /\ W' = {} /\ A' = {}
  <2>1. /\ <<r>> \o list.pending \in Seq(Reqs) /\ Increasing(<<r>> \o list.pending)
        /\ Elems(<<r>> \o list.pending) = P \cup {r} /\ <<r>> \o list.pending # <<>>
        /\ Head(<<r>> \o list.pending) = r
    BY <1>3, <1>6, ConsList DEF P
  <2>2. /\ list'.wait = <<>> /\ list'.active = <<>> /\ list'.pending = <<r>> \o list.pending
        /\ list' \in ListsType
    BY <1>0, <1>2, <1>3, <2>1, NoElems DEF IspType, ListsType, NotifiedAgain
  <2> QED BY <2>1, <2>2, NoElems DEF P, W, A
<1>8. /\ req' \in [Reqs -> ReqType]
      /\ \A x \in Reqs :
           /\ req'[x].left = req[x].left
           /\ req'[x].out = req[x].out /\ req'[x].kind = req[x].kind
           /\ req'[x].acked = req[x].acked
           /\ req'[x].report = req[x].report /\ req'[x].recover = req[x].recover
      /\ \A x \in Reqs : x # r => req'[x] = req[x]
      /\ ~req'[r].bubble
  <2>1. req \in [Reqs -> ReqType]
    BY <1>0 DEF IspType
  <2>2. req'[r] = [req[r] EXCEPT !.bubble = FALSE, !.acked = 0] /\ req[r] \in ReqType
        /\ \A x \in Reqs : x # r => req'[x] = req[x]
    BY <1>3, <2>1 DEF NotifiedAgain
  <2>3. /\ req'[r] \in ReqType
        /\ req'[r].left = req[r].left /\ req'[r].out = req[r].out /\ req'[r].kind = req[r].kind
        /\ req'[r].acked = 0 /\ ~req'[r].bubble
        /\ req'[r].report = req[r].report /\ req'[r].recover = req[r].recover
    <3>1. 0 \in Nat /\ FALSE \in BOOLEAN
      OBVIOUS
    <3> QED BY <2>2, <3>1 DEF ReqType
  <2>4. req' \in [Reqs -> ReqType]
    <3>1. DOMAIN req' = Reqs /\ req' = [x \in Reqs |-> req'[x]]
      BY <2>1 DEF NotifiedAgain
    <3>2. \A x \in Reqs : req'[x] \in ReqType
      BY <2>1, <2>2, <2>3
    <3> QED BY <3>1, <3>2
  <2> QED BY <1>3, <2>2, <2>3, <2>4
<1>9. /\ Running' /\ ~Applying' /\ (Flushing' <=> Flushing) /\ ~Latching' /\ Taken' = Taken
      /\ Ahead' = Ahead /\ \A x : ~Waits(x)'
  BY <1>1, <1>2, <1>4, <1>5, <1>7, <1>8
     DEF Running, Applying, Flushing, Latching, Taken, Waits, Ahead
<1>10. IspType' BY <1>0, <1>1, <1>4, <1>5, <1>7, <1>8 DEF IspType
<1>11. OrderInv'
  <2>1. Len(list'.wait) = 0 /\ Len(list'.active) = 0 /\ Increasing(list'.active)
    BY <1>7, NoElems
  <2> QED BY <1>7, <2>1 DEF OrderInv, Before
<1>12. r \in Taken /\ (~Flushing => r \in crm.has)
  BY <1>1, <1>3 DEF IspInv, StateInv, CrmInv
<1>13. StateInv'
  <2>1. StateInv /\ crm.has \subseteq Reqs BY <1>0 DEF IspInv, IspType, CrmType
  <2>2. /\ \A x \in P' : req'[x].kind = "update"
        /\ \A x \in crm.has : req'[x].kind = "update"
    BY <1>1, <1>3, <1>6, <1>7, <1>8, <2>1 DEF StateInv, Running
  <2>3. P' \cup W' \cup A' \subseteq Taken' /\ state' = "ACTIVATED"
    BY <1>1, <1>7, <1>9, <1>12, <2>1 DEF StateInv, Running
  <2> QED BY <1>4, <1>9, <2>2, <2>3 DEF StateInv
<1>14. IdInv'
  <2>1. IdInv /\ crm.has \subseteq Reqs BY <1>0 DEF IspInv, IspType, CrmType
  <2>2. \A x, y \in crm.has :
          req'[x].kind = "update" /\ req'[y].kind = "update" => req'[x].recover = req'[y].recover
    BY <1>8, <2>1 DEF IdInv
  <2>3. /\ state' # "FLUSHED" => \A x \in P' \cup W' \cup A' : x > isp'.last_flush
        /\ isp'.last_flush \in Taken' \cup {NoReq}
        /\ \A x \in Reqs : req'[x].kind = "init" => ~req'[x].recover
    BY <1>1, <1>3, <1>5, <1>7, <1>8, <1>9, <2>1 DEF IdInv
  <2>4. crm'.has \cup W' \cup A' = crm.has
    BY <1>4, <1>7
  <2> QED BY <2>2, <2>3, <2>4 DEF IdInv
<1>15. HolderInv'
  <2>1. HolderInv BY DEF IspInv
  <2> QED BY <1>1, <1>9, <2>1 DEF HolderInv
<1>16. HwInv'
  <2>1. HwInv BY DEF IspInv
  <2>2. \A p \in Ports : Increasing(hw.todo[p])
    BY <1>1, <2>1 DEF HwInv
  <2> QED BY <1>1, <1>2, <1>3, <1>9, <2>2 DEF HwInv
<1>17. SubInv'
  <2>1. SubInv BY DEF IspInv
  <2> QED BY <1>1, <1>5, <1>7, <1>9, <2>1, NoElems, <1>3 DEF SubInv
<1>18. BubbleInv'
  <2>1. BubbleInv BY DEF IspInv
  <2> QED BY <1>1, <1>5, <1>7, <1>9, <2>1 DEF BubbleInv
<1>19. ReqInv'
  <2>1. ReqInv BY DEF IspInv
  <2>2. \A x \in P' : req'[x].acked = 0 /\ req'[x].left = req'[x].out /\ ~req'[x].bubble
    <3>1. \A x \in P : req'[x].acked = 0 /\ req'[x].left = req'[x].out /\ ~req'[x].bubble
      BY <1>6, <1>8, <2>1 DEF ReqInv
    <3>2. req'[r].acked = 0 /\ req'[r].left = req'[r].out /\ ~req'[r].bubble
      BY <1>3, <1>8
    <3> QED BY <1>7, <3>1, <3>2
  <2>3. \A x \in Reqs : req'[x].left \subseteq req'[x].out /\ req'[x].acked <= Cardinality(req'[x].out)
    BY <1>8, <2>1 DEF ReqInv
  <2>4. \A x \in Taken : x \notin P' => req'[x].left = {}
    BY <1>2, <1>3, <1>7, <1>8, <2>1 DEF ReqInv, Taken
  <2> QED BY <1>7, <1>9, <2>2, <2>3, <2>4 DEF ReqInv
<1>20. CrmInv'
  <2>1. CrmInv BY DEF IspInv
  <2> QED BY <1>1, <1>3, <1>4, <1>5, <1>7, <1>9, <1>12, <2>1 DEF CrmInv
<1>21. AheadInv'
  <2>1. ASSUME ~Flushing, ~crm.fatal
        PROVE  /\ Ahead = P \cup (IF crm.back = NoReq THEN {r} ELSE {})
               /\ crm.back # NoReq => crm.back = r
    BY <1>1, <1>3, <2>1 DEF AheadInv, CrmInv, IspInv
  <2>2. ASSUME ~Flushing, ~crm.fatal
        PROVE  Ahead = ({r} \cup P) \ (IF crm.back # NoReq THEN {crm.back} ELSE {})
    BY <1>6, <2>1, <2>2
  <2> QED BY <1>4, <1>5, <1>7, <1>9, <2>2 DEF AheadInv
<1> QED BY <1>10, <1>11, <1>13, <1>14, <1>15, <1>16, <1>17, <1>18, <1>19, <1>20, <1>21 DEF IspInv

\* The epoch of a request that waits is a bubble; any other is reported.
LEMMA EpochStep == ASSUME IspInv, Orderly, Epoch PROVE IspInv'
<1>1. CASE Latching /\ Bubble
  BY <1>1, BubbleStep
<1>2. CASE isp.sub \in {"SOF", "EPOCH", "BUBBLE"} /\ NotifySof
  <2> DEFINE bubble == isp.process_bubble /\ list.active # <<>> /\ req[Head(list.active)].bubble
             again == bubble /\ BubbleTimeout
  <2>0. isp \in CtxType /\ crm \in CrmType
    BY DEF IspInv, IspType
  <2>1. /\ Len(list.active) \in Nat /\ Len(list.active) <= 2 /\ isp.cnt = Len(list.active)
        /\ isp.process_bubble => list.active # <<>>
    BY <1>2, AtNotify
  <2>2. crm' = [crm EXCEPT !.trigger = TRUE]
    <3>1. PICK b \in BOOLEAN : b = (crm.trigger \/ ((IF again THEN isp.cnt - 1 ELSE isp.cnt) <= 2
                                                /\ ~(isp.process_bubble /\ list.active = <<>>)))
      OBVIOUS
    <3>2. b = TRUE
      <4>1. (IF again THEN isp.cnt - 1 ELSE isp.cnt) <= 2
        <5> HIDE DEF again
        <5> QED BY <2>1
      <4>2. ~(isp.process_bubble /\ list.active = <<>>)
        BY <2>1
      <4> QED BY <3>1, <4>1, <4>2, Zenon
    <3>3. crm' = [crm EXCEPT !.trigger = b]
      BY <1>2, <3>1 DEF NotifySof
    <3> QED BY <3>2, <3>3
  <2>3. CASE again
    <3>1. PICK r : r = Head(list.active)
      OBVIOUS
    <3>2. /\ isp' = [isp EXCEPT !.process_bubble = FALSE, !.frame_cnt = 0, !.cnt = isp.cnt - 1]
          /\ list' = [list EXCEPT !.active = Tail(list.active), !.pending = <<r>> \o list.pending]
          /\ req' = [req EXCEPT ![r].bubble = FALSE, ![r].acked = 0]
      BY <1>2, <2>3, <3>1 DEF NotifySof, Requeue
    <3>3. isp.process_bubble /\ isp.frame_cnt >= 1 /\ req[r].bubble
      BY <2>3, <3>1 DEF BubbleTimeout
    <3> QED BY <1>2, <2>2, <3>1, <3>2, <3>3, NotifyAgain DEF NotifiedAgain
  <2>4. CASE ~again
    <3>1. PICK n \in Nat : n = IF bubble THEN isp.frame_cnt + 1 ELSE isp.frame_cnt
      BY <2>0 DEF CtxType
    <3>2. list' = list /\ req' = req
      BY <1>2, <2>4 DEF NotifySof
    <3>3. isp' = [isp EXCEPT !.frame_cnt = n]
      <4>1. isp' = [isp EXCEPT !.process_bubble = isp.process_bubble /\ list.active # <<>> /\ ~again,
                               !.frame_cnt = n, !.cnt = isp.cnt]
        BY <1>2, <2>4, <3>1 DEF NotifySof
      <4>2. PICK b \in BOOLEAN : b = (isp.process_bubble /\ list.active # <<>> /\ ~again)
        OBVIOUS
      <4>3. b = isp.process_bubble
        BY <2>0, <2>1, <2>4, <4>2 DEF CtxType
      <4>4. isp' = [isp EXCEPT !.process_bubble = b, !.frame_cnt = n, !.cnt = isp.cnt]
        BY <4>1, <4>2
      <4> QED BY <2>0, <4>3, <4>4 DEF CtxType
    <3>4. n > 0 => isp.process_bubble
      <4>1. Running
        BY AtEpoch
      <4> QED BY <3>1, <4>1 DEF IspInv, BubbleInv
    <3> QED BY <1>2, <2>2, <3>1, <3>2, <3>3, <3>4, NotifyOnly DEF Notified
  <2> QED BY <2>3, <2>4
<1> QED BY <1>1, <1>2, AtEpoch

-----------------------------------------------------------------------------
(* Buffers are done                                                           *)

\* The requests whose buffer of a port is done
Came(S, x) == {p \in S : Head(hw.todo[p]) = x}

\* The context while the buffers of ports S are handled: due[x] are those of x that still have to
\* come, and the requests that are not active any more are the ones for which none has.
Handling(c, due, S) ==
  /\ c \in [isp : CtxType, list : ListsType, req : [Reqs -> ReqType]]
  /\ c.isp.sub = isp.sub /\ c.isp.last_applied = isp.last_applied /\ c.isp.last_flush = isp.last_flush
  /\ c.isp.cnt = Len(c.list.active)
  /\ c.isp.frame_cnt > 0 => c.isp.process_bubble /\ c.isp.frame_cnt = isp.frame_cnt
  /\ c.isp.process_bubble <=> \E x \in Elems(c.list.active) : Bubbled(x)
  /\ c.list.wait = list.wait
  /\ Increasing(c.list.pending) /\ Increasing(c.list.active)
  /\ Len(c.list.active) <= Len(list.active) /\ Elems(c.list.active) \subseteq A
  /\ Elems(c.list.pending) = P \cup {x \in A : Bubbled(x) /\ x \notin Elems(c.list.active)}
  /\ \A x \in Reqs :
       /\ c.req[x].kind = req[x].kind /\ c.req[x].out = req[x].out
       /\ c.req[x].report = req[x].report /\ c.req[x].recover = req[x].recover
       /\ c.req[x].filled = req[x].filled \cup Came(S, x)
       /\ c.req[x].ok \subseteq req[x].ok \cup Came(S, x)
       /\ due[x] \subseteq req[x].out
  /\ \A x \in Reqs : x \notin A =>
       c.req[x].left = req[x].left /\ c.req[x].acked = req[x].acked /\ (c.req[x].bubble <=> req[x].bubble)
  /\ \A x \in Elems(c.list.active) :
       /\ c.req[x].bubble <=> req[x].bubble
       /\ c.req[x].acked + Cardinality(due[x]) = Cardinality(req[x].out)
       /\ c.req[x].left = IF Bubbled(x) THEN req[x].out ELSE due[x]
  /\ \A x \in A : x \notin Elems(c.list.active) =>
       IF Bubbled(x) THEN c.req[x].acked = 0 /\ c.req[x].left = req[x].out /\ ~c.req[x].bubble
       ELSE c.req[x].acked = Cardinality(req[x].out) /\ c.req[x].left = {}

\* Buffers M of a request with due buffers D are done.
LEMMA CountDown ==
  ASSUME NEW D \in SUBSET Ports, NEW M \in SUBSET D
  PROVE  /\ Cardinality(D) \in Nat /\ Cardinality(M) \in Nat /\ Cardinality(D \ M) \in Nat
         /\ Cardinality(D \ M) = Cardinality(D) - Cardinality(M)
         /\ Cardinality(D \ M) = 0 <=> D \ M = {}
<1>1. IsFiniteSet(D) /\ IsFiniteSet(M) /\ IsFiniteSet(D \ M)
  BY IspAssumption, FS_Subset
<1>2. Cardinality(D) \in Nat /\ Cardinality(M) \in Nat /\ Cardinality(D \ M) \in Nat
  BY <1>1, FS_CardinalityType
<1>3. Cardinality(D \ M) = Cardinality(D) - Cardinality(D \cap M)
  BY <1>1, FS_Difference
<1>4. D \cap M = M
  OBVIOUS
<1>5. Cardinality(D \ M) = 0 <=> D \ M = {}
  BY <1>1, FS_EmptySet
<1> QED BY <1>2, <1>3, <1>4, <1>5

\* What the acknowledgement of ports T leaves of request q: a is the request afterwards
IsAcked(q, T, a) ==
  /\ a \in ReqType
  /\ a.kind = q.kind /\ a.out = q.out /\ a.report = q.report
  /\ a.recover = q.recover /\ a.filled = q.filled
  /\ a.bubble <=> q.bubble
  /\ a.acked = q.acked + Cardinality(T \cap q.left)
  /\ a.left = IF q.bubble /\ q.report THEN q.left ELSE q.left \ T
  /\ a.ok \subseteq q.ok \cup (T \cap q.left)

\* What the acknowledgement does to the request
LEMMA AckedIs ==
  ASSUME NEW q \in ReqType, NEW T \in SUBSET Ports, NEW a, a = Acked(q, T)
  PROVE  IsAcked(q, T, a)
<1> SUFFICES /\ Acked(q, T) \in ReqType
             /\ Acked(q, T).kind = q.kind /\ Acked(q, T).out = q.out /\ Acked(q, T).report = q.report
             /\ Acked(q, T).recover = q.recover /\ Acked(q, T).filled = q.filled
             /\ Acked(q, T).bubble <=> q.bubble
             /\ Acked(q, T).acked = q.acked + Cardinality(T \cap q.left)
             /\ Acked(q, T).left = IF q.bubble /\ q.report THEN q.left ELSE q.left \ T
             /\ Acked(q, T).ok \subseteq q.ok \cup (T \cap q.left)
  BY DEF IsAcked
<1> DEFINE M == T \cap q.left
<1>1. M \in SUBSET Ports /\ Cardinality(M) \in Nat
  BY IspAssumption, FS_Subset, FS_CardinalityType DEF ReqType
<1>2. PICK n \in Nat : n = q.acked + Cardinality(M)
  BY <1>1 DEF ReqType
<1>3. q.left \ M = q.left \ T
  OBVIOUS
<1>4. CASE q.bubble /\ q.report
  <2>1. Acked(q, T) = [q EXCEPT !.acked = n]
    BY <1>2, <1>4 DEF Acked
  <2> QED BY <1>2, <1>4, <2>1 DEF ReqType
<1>5. CASE q.bubble /\ ~q.report
  <2>1. Acked(q, T) = [q EXCEPT !.acked = n, !.left = q.left \ M]
    BY <1>2, <1>5 DEF Acked
  <2>2. q.left \ M \in SUBSET Ports
    BY DEF ReqType
  <2>3. M = T \cap q.left
    OBVIOUS
  <2> HIDE DEF M
  <2> QED BY <1>2, <1>3, <1>5, <2>1, <2>2, <2>3 DEF ReqType
<1>6. CASE ~q.bubble
  <2>1. Acked(q, T) = [q EXCEPT !.acked = n, !.left = q.left \ M, !.ok = q.ok \cup M]
    BY <1>2, <1>6 DEF Acked
  <2>2. q.left \ M \in SUBSET Ports /\ q.ok \cup M \in SUBSET Ports
    BY <1>1 DEF ReqType
  <2>3. M = T \cap q.left
    OBVIOUS
  <2> HIDE DEF M
  <2> QED BY <1>2, <1>3, <1>6, <2>1, <2>2, <2>3 DEF ReqType
<1> QED BY <1>4, <1>5, <1>6

\* The last buffers of a request come, and it is a bubble that is to be recovered.
LastBuf(q, T) == q.acked + Cardinality(T \cap q.left) = Cardinality(q.out)
Recovers(q) == q.bubble /\ q.report

\* The context with, or without, the last buffers of a request: d is c after buffers T of x.
Handles(c, x, T, d) ==
  /\ d \in [isp : CtxType, list : ListsType, req : [Reqs -> ReqType]]
  /\ d.isp.sub = c.isp.sub /\ d.isp.last_applied = c.isp.last_applied
  /\ d.isp.last_flush = c.isp.last_flush
  /\ d.isp.cnt = IF LastBuf(c.req[x], T) THEN c.isp.cnt - 1 ELSE c.isp.cnt
  /\ d.isp.process_bubble <=> c.isp.process_bubble /\ ~(LastBuf(c.req[x], T) /\ Recovers(c.req[x]))
  /\ d.isp.frame_cnt = IF LastBuf(c.req[x], T) /\ Recovers(c.req[x]) THEN 0 ELSE c.isp.frame_cnt
  /\ d.list.wait = c.list.wait
  /\ d.list.active = IF LastBuf(c.req[x], T) THEN Without(c.list.active, x) ELSE c.list.active
  /\ d.list.pending = IF LastBuf(c.req[x], T) /\ Recovers(c.req[x]) THEN <<x>> \o c.list.pending ELSE c.list.pending
  /\ \A y \in Reqs : y # x => d.req[y] = c.req[y]
  /\ d.req[x].kind = c.req[x].kind /\ d.req[x].out = c.req[x].out
  /\ d.req[x].report = c.req[x].report /\ d.req[x].recover = c.req[x].recover
  /\ d.req[x].filled = c.req[x].filled
  /\ d.req[x].ok \subseteq c.req[x].ok \cup (T \cap c.req[x].left)
  /\ d.req[x].left = IF Recovers(c.req[x]) THEN c.req[x].left ELSE c.req[x].left \ T
  /\ d.req[x].bubble <=> c.req[x].bubble /\ ~(LastBuf(c.req[x], T) /\ Recovers(c.req[x]))
  /\ d.req[x].acked = IF LastBuf(c.req[x], T) /\ Recovers(c.req[x]) THEN 0 ELSE c.req[x].acked + Cardinality(T \cap c.req[x].left)

\* What DoneFor does to the context, with the last buffers of a request and before
LEMMA DoneForIs ==
  ASSUME NEW c \in [isp : CtxType, list : ListsType, req : [Reqs -> ReqType]],
         NEW x \in Reqs, NEW T \in SUBSET Ports, x > c.isp.last_flush,
         Increasing(c.list.active), Increasing(c.list.pending),
         NEW d, d = DoneFor(c, x, T),
         \A y \in Elems(c.list.pending) : x < y
  PROVE  Handles(c, x, T, d)
<1> DEFINE gone == LastBuf(c.req[x], T)
           b == Recovers(c.req[x])
<1> PICK q : q = Acked(c.req[x], T)
  OBVIOUS
<1>0. c.req[x] \in ReqType /\ c.isp \in CtxType /\ c.list \in ListsType /\ c.req \in [Reqs -> ReqType]
  OBVIOUS
<1>1. /\ q \in ReqType
      /\ q.kind = c.req[x].kind /\ q.out = c.req[x].out /\ q.report = c.req[x].report
      /\ q.recover = c.req[x].recover /\ q.filled = c.req[x].filled
      /\ q.bubble <=> c.req[x].bubble
      /\ q.acked = c.req[x].acked + Cardinality(T \cap c.req[x].left)
      /\ q.left = IF c.req[x].bubble /\ c.req[x].report THEN c.req[x].left ELSE c.req[x].left \ T
      /\ q.ok \subseteq c.req[x].ok \cup (T \cap c.req[x].left)
  <2>1. IsAcked(c.req[x], T, q)
    BY <1>0, AckedIs
  <2> QED BY <2>1 DEF IsAcked
<1>6. /\ gone <=> q.acked = Cardinality(q.out)
      /\ b <=> q.bubble /\ q.report
  BY <1>1 DEF LastBuf, Recovers
<1>7. q.left = IF b THEN c.req[x].left ELSE c.req[x].left \ T
  BY <1>1 DEF Recovers
<1> HIDE DEF gone, b
<1>2. /\ Without(c.list.active, x) \in Seq(Reqs)
      /\ <<x>> \o c.list.pending \in Seq(Reqs)
  BY <1>0, WithoutList, ConsList DEF ListsType
<1>3. CASE ~gone
  <2>1. d = [c EXCEPT !.req[x] = q]
    BY <1>3, <1>6 DEF DoneFor
  <2>2. d.isp = c.isp /\ d.list = c.list /\ d.req = [c.req EXCEPT ![x] = q]
        /\ d \in [isp : CtxType, list : ListsType, req : [Reqs -> ReqType]]
    BY <1>0, <1>1, <2>1
  <2>3. d.req[x] = q /\ \A y \in Reqs : y # x => d.req[y] = c.req[y]
    BY <1>0, <2>2
  <2> QED BY <1>1, <1>3, <1>7, <2>2, <2>3 DEF gone, b, Handles
<1>4. CASE gone /\ ~b
  <2>1. q.acked = Cardinality(q.out) /\ ~(q.bubble /\ q.report)
    BY <1>4, <1>6
  <2>2. d = [isp |-> [c.isp EXCEPT !.cnt = c.isp.cnt - 1, !.process_bubble = c.isp.process_bubble /\ TRUE,
                                   !.frame_cnt = c.isp.frame_cnt],
             list |-> [c.list EXCEPT !.active = Without(c.list.active, x), !.pending = c.list.pending],
             req |-> [c.req EXCEPT ![x] = q]]
    BY <2>1 DEF DoneFor
  <2>3. PICK n \in Int : n = c.isp.cnt - 1
    BY <1>0 DEF CtxType
  <2>4. PICK pb \in BOOLEAN : pb = (c.isp.process_bubble /\ TRUE)
    OBVIOUS
  <2>5. d.isp = [c.isp EXCEPT !.cnt = n, !.process_bubble = pb, !.frame_cnt = c.isp.frame_cnt]
    BY <2>2, <2>3, <2>4
  <2>6. /\ d.isp \in CtxType /\ d.isp.sub = c.isp.sub /\ d.isp.last_applied = c.isp.last_applied
        /\ d.isp.last_flush = c.isp.last_flush /\ d.isp.cnt = n /\ (d.isp.process_bubble <=> pb)
        /\ d.isp.frame_cnt = c.isp.frame_cnt
    BY <1>0, <2>5 DEF CtxType
  <2>7. d.list = [c.list EXCEPT !.active = Without(c.list.active, x), !.pending = c.list.pending]
        /\ d.req = [c.req EXCEPT ![x] = q] /\ d = [isp |-> d.isp, list |-> d.list, req |-> d.req]
    BY <2>2
  <2>8. /\ d.list \in ListsType /\ d.list.wait = c.list.wait /\ d.list.pending = c.list.pending
        /\ d.list.active = Without(c.list.active, x)
    BY <1>0, <1>2, <2>7 DEF ListsType
  <2>9. d.req \in [Reqs -> ReqType] /\ d.req[x] = q /\ \A y \in Reqs : y # x => d.req[y] = c.req[y]
    BY <1>0, <1>1, <2>7
  <2>10. d \in [isp : CtxType, list : ListsType, req : [Reqs -> ReqType]]
    BY <2>6, <2>7, <2>8, <2>9
  <2> QED BY <1>1, <1>4, <1>7, <2>3, <2>4, <2>6, <2>8, <2>9, <2>10 DEF gone, b, Handles
<1>5. CASE gone /\ b
  <2>1. q.acked = Cardinality(q.out) /\ q.bubble /\ q.report /\ ~(x <= c.isp.last_flush)
    <3>1. x \in Nat /\ c.isp.last_flush \in Nat
      BY <1>0, NoReqIs DEF CtxType
    <3> QED BY <1>5, <1>6, <3>1
  <2>2. d = [isp |-> [c.isp EXCEPT !.cnt = c.isp.cnt - 1, !.process_bubble = c.isp.process_bubble /\ FALSE,
                                   !.frame_cnt = 0],
             list |-> [c.list EXCEPT !.active = Without(c.list.active, x),
                                     !.pending = <<x>> \o c.list.pending],
             req |-> [c.req EXCEPT ![x] = [q EXCEPT !.acked = 0, !.bubble = FALSE, !.left = q.left]]]
    BY <2>1 DEF DoneFor, Requeue
  <2>3. PICK n \in Int : n = c.isp.cnt - 1
    BY <1>0 DEF CtxType
  <2>4. PICK pb \in BOOLEAN : pb = (c.isp.process_bubble /\ FALSE)
    OBVIOUS
  <2>5. d.isp = [c.isp EXCEPT !.cnt = n, !.process_bubble = pb, !.frame_cnt = 0]
    BY <2>2, <2>3, <2>4
  <2>6. /\ d.isp \in CtxType /\ d.isp.sub = c.isp.sub /\ d.isp.last_applied = c.isp.last_applied
        /\ d.isp.last_flush = c.isp.last_flush /\ d.isp.cnt = n /\ (d.isp.process_bubble <=> pb)
        /\ d.isp.frame_cnt = 0
    <3>1. 0 \in Nat
      OBVIOUS
    <3> QED BY <1>0, <2>5, <3>1 DEF CtxType
  <2> PICK z : z = [q EXCEPT !.acked = 0, !.bubble = FALSE, !.left = q.left]
    OBVIOUS
  <2>11. /\ z \in ReqType /\ z.kind = q.kind /\ z.out = q.out /\ z.report = q.report /\ z.recover = q.recover
         /\ z.filled = q.filled /\ z.ok = q.ok /\ z.left = q.left /\ ~z.bubble /\ z.acked = 0
    <3>1. 0 \in Nat /\ FALSE \in BOOLEAN
      OBVIOUS
    <3> QED BY <1>1, <3>1 DEF ReqType
  <2>7. d.list = [c.list EXCEPT !.active = Without(c.list.active, x), !.pending = <<x>> \o c.list.pending]
        /\ d.req = [c.req EXCEPT ![x] = z] /\ d = [isp |-> d.isp, list |-> d.list, req |-> d.req]
    BY <2>2
  <2>8. /\ d.list \in ListsType /\ d.list.wait = c.list.wait /\ d.list.pending = <<x>> \o c.list.pending
        /\ d.list.active = Without(c.list.active, x)
    BY <1>0, <1>2, <2>7 DEF ListsType
  <2>9. d.req \in [Reqs -> ReqType] /\ d.req[x] = z /\ \A y \in Reqs : y # x => d.req[y] = c.req[y]
    BY <1>0, <2>11, <2>7, ZenonT(60)
  <2>10. d \in [isp : CtxType, list : ListsType, req : [Reqs -> ReqType]]
    BY <2>6, <2>7, <2>8, <2>9
  <2> QED BY <1>1, <1>5, <1>6, <1>7, <2>3, <2>4, <2>6, <2>8, <2>9, <2>10, <2>11, ZenonT(60) DEF gone, b, Handles
<1>8. (gone /\ b) \/ (gone /\ ~b) \/ ~gone
  OBVIOUS
<1> QED BY <1>3, <1>4, <1>5, <1>8

\* Of buffers T, the active request x takes those that are its own; due2 is what is due then.
Takes(c, due, due2, S, x, T) ==
  /\ Handling(c, due, S) /\ x \in Elems(c.list.active) /\ T \in SUBSET Ports
  /\ T \cap c.req[x].left = Came(S, x) /\ Came(S, x) \subseteq due[x]
  /\ due2[x] = due[x] \ Came(S, x) /\ \A y \in Reqs : y # x => due2[y] = due[y]

\* It is off the list when nothing is due any more.
Took(c, due2, S, x, d) ==
  /\ Handling(d, due2, S)
  /\ Elems(d.list.active) = IF due2[x] = {} THEN Elems(c.list.active) \ {x} ELSE Elems(c.list.active)

\* The buffers of one active request are handled.
LEMMA HandleOne ==
  ASSUME IspInv, Running, NEW S \in SUBSET Ports, NEW c, NEW due, NEW due2, NEW x, NEW T,
         Takes(c, due, due2, S, x, T)
  PROVE  Took(c, due2, S, x, DoneFor(c, x, T))
<1>a. /\ Handling(c, due, S) /\ x \in Elems(c.list.active) /\ T \in SUBSET Ports
      /\ T \cap c.req[x].left = Came(S, x) /\ Came(S, x) \subseteq due[x]
      /\ due2[x] = due[x] \ Came(S, x) /\ \A y \in Reqs : y # x => due2[y] = due[y]
  BY DEF Takes
<1> USE <1>a
<1> DEFINE M == Came(S, x)
           gone == due2[x] = {}
           d == DoneFor(c, x, T)
<1>0. IspType /\ OrderInv /\ BubbleInv
  BY DEF IspInv
<1>1. /\ c \in [isp : CtxType, list : ListsType, req : [Reqs -> ReqType]]
      /\ c.isp.last_applied = isp.last_applied /\ c.isp.last_flush = isp.last_flush
      /\ c.isp.cnt = Len(c.list.active)
      /\ c.isp.process_bubble <=> \E y \in Elems(c.list.active) : Bubbled(y)
      /\ Increasing(c.list.pending) /\ Increasing(c.list.active)
      /\ Elems(c.list.active) \subseteq A
      /\ Elems(c.list.pending) = P \cup {y \in A : Bubbled(y) /\ y \notin Elems(c.list.active)}
  BY DEF Handling
<1>2. x \in A /\ x \in Reqs /\ x \in Nat /\ A \subseteq Reqs /\ P \subseteq Reqs /\ x \notin P
      /\ \A y \in P : x < y
  <2>1. x \in A /\ x \in Reqs /\ x \in Nat /\ A \subseteq Reqs /\ P \subseteq Reqs /\ x \notin P
    BY <1>0, <1>1, ListFacts, NoReqIs
  <2> QED BY <1>0, <2>1 DEF OrderInv, Before
<1>3. /\ c.req[x].kind = req[x].kind /\ c.req[x].out = req[x].out
      /\ c.req[x].report = req[x].report /\ c.req[x].recover = req[x].recover
      /\ c.req[x].bubble <=> req[x].bubble
      /\ c.req[x].acked + Cardinality(due[x]) = Cardinality(req[x].out)
      /\ c.req[x].left = IF Bubbled(x) THEN req[x].out ELSE due[x]
      /\ due[x] \subseteq req[x].out
      /\ c.req[x].filled = req[x].filled \cup Came(S, x)
      /\ c.req[x].ok \subseteq req[x].ok \cup Came(S, x)
  BY <1>2 DEF Handling
<1>4. /\ M \in SUBSET due[x] /\ due[x] \in SUBSET Ports
      /\ Cardinality(due[x]) \in Nat /\ Cardinality(M) \in Nat /\ Cardinality(due2[x]) \in Nat
      /\ Cardinality(due2[x]) = Cardinality(due[x]) - Cardinality(M)
      /\ Cardinality(due2[x]) = 0 <=> gone
      /\ Cardinality(req[x].out) \in Nat /\ c.req[x].acked \in Nat
  <2>1. M \in SUBSET due[x] /\ due[x] \in SUBSET Ports /\ req[x].out \in SUBSET Ports
    BY <1>0, <1>2, <1>3 DEF IspType, ReqType
  <2>2. Cardinality(req[x].out) \in Nat /\ c.req[x].acked \in Nat
    BY <1>1, <1>2, <2>1, IspAssumption, FS_Subset, FS_CardinalityType DEF ReqType
  <2> HIDE DEF M
  <2>3. /\ Cardinality(due[x]) \in Nat /\ Cardinality(M) \in Nat /\ Cardinality(due[x] \ M) \in Nat
        /\ Cardinality(due[x] \ M) = Cardinality(due[x]) - Cardinality(M)
        /\ Cardinality(due[x] \ M) = 0 <=> due[x] \ M = {}
    BY <2>1, CountDown
  <2>4. due2[x] = due[x] \ M
    BY DEF M
  <2> QED BY <2>1, <2>2, <2>3, <2>4
<1>5. gone <=> c.req[x].acked + Cardinality(T \cap c.req[x].left) = Cardinality(c.req[x].out)
  <2>1. Cardinality(T \cap c.req[x].left) = Cardinality(M)
    OBVIOUS
  <2> HIDE DEF gone, M
  <2>2. gone <=> c.req[x].acked + Cardinality(M) = Cardinality(req[x].out)
    BY <1>3, <1>4
  <2> QED BY <1>3, <2>1, <2>2
<1>6. /\ isp.last_flush < x
      /\ Bubbled(x) => x = isp.last_applied
      /\ \A y \in A : Bubbled(y) => y = isp.last_applied
      /\ \A y \in Elems(c.list.pending) : x < y
  <2>1. isp.last_flush < x
    BY <1>0, <1>2 DEF IspInv, IdInv, Running, IspType, CtxType
  <2>2. \A y \in A : Bubbled(y) => y = isp.last_applied
    BY <1>0 DEF BubbleInv
  <2>3. \A y \in A : y <= isp.last_applied
    BY <1>0 DEF BubbleInv
  <2>4. ASSUME NEW y \in A, Bubbled(y), y \notin Elems(c.list.active) PROVE x < y
    <3>1. y = isp.last_applied /\ x <= isp.last_applied /\ x # y
      BY <1>2, <2>2, <2>3, <2>4
    <3>2. x <= y /\ y \in Nat
      BY <1>2, <2>4, <3>1, NoReqIs
    <3> QED BY <1>2, <3>1, <3>2
  <2> QED BY <1>1, <1>2, <2>1, <2>2, <2>4
<1> DEFINE g == LastBuf(c.req[x], T)
           b == Recovers(c.req[x])
<1>7. g <=> gone
  BY <1>5 DEF LastBuf
<1>8. b <=> Bubbled(x)
  BY <1>3 DEF Bubbled, Recovers
<1>9. PICK z : z = DoneFor(c, x, T)
  OBVIOUS
<1>10. /\ z \in [isp : CtxType, list : ListsType, req : [Reqs -> ReqType]]
       /\ z.isp.sub = c.isp.sub /\ z.isp.last_applied = c.isp.last_applied
       /\ z.isp.last_flush = c.isp.last_flush
       /\ z.isp.cnt = IF g THEN c.isp.cnt - 1 ELSE c.isp.cnt
       /\ z.isp.process_bubble <=> c.isp.process_bubble /\ ~(g /\ b)
       /\ z.isp.frame_cnt = IF g /\ b THEN 0 ELSE c.isp.frame_cnt
       /\ z.list.wait = c.list.wait
       /\ z.list.active = IF g THEN Without(c.list.active, x) ELSE c.list.active
       /\ z.list.pending = IF g /\ b THEN <<x>> \o c.list.pending ELSE c.list.pending
       /\ \A y \in Reqs : y # x => z.req[y] = c.req[y]
       /\ z.req[x].kind = c.req[x].kind /\ z.req[x].out = c.req[x].out
       /\ z.req[x].report = c.req[x].report /\ z.req[x].recover = c.req[x].recover
       /\ z.req[x].filled = c.req[x].filled
       /\ z.req[x].ok \subseteq c.req[x].ok \cup (T \cap c.req[x].left)
       /\ z.req[x].left = IF b THEN c.req[x].left ELSE c.req[x].left \ T
       /\ z.req[x].bubble <=> c.req[x].bubble /\ ~(g /\ b)
       /\ z.req[x].acked = IF g /\ b THEN 0 ELSE c.req[x].acked + Cardinality(T \cap c.req[x].left)
  <2>1. x > c.isp.last_flush
    BY <1>0, <1>1, <1>2, <1>6 DEF IspType, CtxType
  <2>2. /\ c \in [isp : CtxType, list : ListsType, req : [Reqs -> ReqType]] /\ x \in Reqs /\ T \in SUBSET Ports
        /\ Increasing(c.list.active) /\ Increasing(c.list.pending) /\ z = DoneFor(c, x, T)
        /\ \A y \in Elems(c.list.pending) : x < y
    BY <1>1, <1>2, <1>6, <1>9
  <2>3. Handles(c, x, T, z)
    BY <2>1, <2>2, DoneForIs
  <2> QED BY <2>3 DEF Handles
<1> HIDE DEF g, b
<1>11. /\ c.list.active \in Seq(Reqs) /\ c.list.pending \in Seq(Reqs)
       /\ Increasing(z.list.active) /\ Len(z.list.active) = (IF g THEN Len(c.list.active) - 1 ELSE Len(c.list.active))
       /\ Elems(z.list.active) = (IF g THEN Elems(c.list.active) \ {x} ELSE Elems(c.list.active))
       /\ Increasing(z.list.pending)
       /\ Elems(z.list.pending) = (IF g /\ b THEN {x} \cup Elems(c.list.pending) ELSE Elems(c.list.pending))
       /\ Len(c.list.active) \in Nat
  <2>1. c.list.active \in Seq(Reqs) /\ c.list.pending \in Seq(Reqs) /\ Len(c.list.active) \in Nat
    BY <1>1, ElemsOf DEF ListsType
  <2>2. /\ Increasing(Without(c.list.active, x))
        /\ Elems(Without(c.list.active, x)) = Elems(c.list.active) \ {x}
        /\ Len(Without(c.list.active, x)) = Len(c.list.active) - 1
    BY <1>1, <2>1, WithoutList
  <2>3. /\ Increasing(<<x>> \o c.list.pending)
        /\ Elems(<<x>> \o c.list.pending) = Elems(c.list.pending) \cup {x}
    BY <1>1, <1>2, <1>6, <2>1, ConsList
  <2>4. CASE g
    <3>1. z.list.active = Without(c.list.active, x)
      BY <1>10, <2>4
    <3>2. CASE b
      BY <1>10, <2>1, <2>2, <2>3, <2>4, <3>1, <3>2
    <3>3. CASE ~b
      BY <1>1, <1>10, <2>1, <2>2, <2>4, <3>1, <3>3
    <3> QED BY <3>2, <3>3
  <2>5. CASE ~g
    BY <1>1, <1>10, <2>1, <2>5
  <2> QED BY <2>4, <2>5
<1> HIDE DEF gone, M
<1>12. /\ z.isp.sub = isp.sub /\ z.isp.last_applied = isp.last_applied /\ z.isp.last_flush = isp.last_flush
       /\ z.isp.cnt = Len(z.list.active)
       /\ z.isp.frame_cnt > 0 => z.isp.process_bubble /\ z.isp.frame_cnt = isp.frame_cnt
       /\ z.list.wait = list.wait
       /\ Len(z.list.active) <= Len(list.active) /\ Elems(z.list.active) \subseteq A
  <2>1. /\ c.isp.sub = isp.sub /\ c.list.wait = list.wait
        /\ c.isp.frame_cnt > 0 => c.isp.process_bubble /\ c.isp.frame_cnt = isp.frame_cnt
        /\ Len(c.list.active) <= Len(list.active)
    BY DEF Handling
  <2>2. Len(list.active) \in Nat
    BY <1>0, ListFacts, ElemsOf
  <2>3. z.isp.cnt = Len(z.list.active) /\ Len(z.list.active) <= Len(list.active)
    BY <1>1, <1>10, <1>11, <2>1, <2>2
  <2>4. z.isp.frame_cnt > 0 => z.isp.process_bubble /\ z.isp.frame_cnt = isp.frame_cnt
    BY <1>10, <2>1
  <2> QED BY <1>1, <1>10, <1>11, <2>1, <2>3, <2>4
<1>13. z.isp.process_bubble <=> \E y \in Elems(z.list.active) : Bubbled(y)
  <2>1. CASE g /\ b
    <3>1. \A y \in Elems(z.list.active) : ~Bubbled(y)
      BY <1>1, <1>6, <1>8, <1>11, <2>1
    <3> QED BY <1>10, <2>1, <3>1
  <2>2. CASE g /\ ~b
    BY <1>1, <1>8, <1>10, <1>11, <2>2
  <2>3. CASE ~g
    BY <1>1, <1>10, <1>11, <2>3
  <2> QED BY <2>1, <2>2, <2>3
<1>14. Elems(z.list.pending) = P \cup {y \in A : Bubbled(y) /\ y \notin Elems(z.list.active)}
  <2>1. CASE g /\ b
    BY <1>1, <1>2, <1>8, <1>11, <2>1
  <2>2. CASE g /\ ~b
    BY <1>1, <1>2, <1>8, <1>11, <2>2
  <2>3. CASE ~g
    BY <1>1, <1>11, <2>3
  <2> QED BY <2>1, <2>2, <2>3
<1>15. \A y \in Reqs :
         /\ z.req[y].kind = req[y].kind /\ z.req[y].out = req[y].out
         /\ z.req[y].report = req[y].report /\ z.req[y].recover = req[y].recover
         /\ z.req[y].filled = req[y].filled \cup Came(S, y)
         /\ z.req[y].ok \subseteq req[y].ok \cup Came(S, y)
         /\ due2[y] \subseteq req[y].out
  <2>1. \A y \in Reqs :
         /\ c.req[y].kind = req[y].kind /\ c.req[y].out = req[y].out
         /\ c.req[y].report = req[y].report /\ c.req[y].recover = req[y].recover
         /\ c.req[y].filled = req[y].filled \cup Came(S, y)
         /\ c.req[y].ok \subseteq req[y].ok \cup Came(S, y)
         /\ due[y] \subseteq req[y].out
    BY DEF Handling
  <2>2. z.req[x].ok \subseteq req[x].ok \cup Came(S, x)
    BY <1>3, <1>10
  <2> QED BY <1>2, <1>10, <2>1, <2>2
<1>16. \A y \in Reqs : y \notin A =>
         z.req[y].left = req[y].left /\ z.req[y].acked = req[y].acked /\ (z.req[y].bubble <=> req[y].bubble)
  <2>1. \A y \in Reqs : y \notin A =>
         c.req[y].left = req[y].left /\ c.req[y].acked = req[y].acked /\ (c.req[y].bubble <=> req[y].bubble)
    BY DEF Handling
  <2> QED BY <1>2, <1>10, <2>1
<1>17. /\ z.req[x].acked = IF g /\ b THEN 0 ELSE c.req[x].acked + Cardinality(M)
       /\ z.req[x].left = IF b THEN req[x].out ELSE due2[x]
  <2>1. T \cap c.req[x].left = M
    BY DEF M
  <2>2. ~b => c.req[x].left \ T = due2[x]
    <3>1. ~b => c.req[x].left = due[x]
      BY <1>3, <1>8
    <3>2. due2[x] = due[x] \ M
      BY DEF M
    <3>3. ~b => due[x] \ T = due[x] \ M
      BY <2>1, <3>1
    <3> QED BY <3>1, <3>2, <3>3
  <2>3. b => c.req[x].left = req[x].out
    BY <1>3, <1>8
  <2> QED BY <1>10, <2>1, <2>2, <2>3
<1>18. \A y \in Elems(z.list.active) :
         /\ z.req[y].bubble <=> req[y].bubble
         /\ z.req[y].acked + Cardinality(due2[y]) = Cardinality(req[y].out)
         /\ z.req[y].left = IF Bubbled(y) THEN req[y].out ELSE due2[y]
  <2>1. \A y \in Elems(c.list.active) :
         /\ c.req[y].bubble <=> req[y].bubble
         /\ c.req[y].acked + Cardinality(due[y]) = Cardinality(req[y].out)
         /\ c.req[y].left = IF Bubbled(y) THEN req[y].out ELSE due[y]
    BY DEF Handling
  <2>2. ASSUME NEW y \in Elems(z.list.active), y # x
        PROVE  /\ z.req[y].bubble <=> req[y].bubble
               /\ z.req[y].acked + Cardinality(due2[y]) = Cardinality(req[y].out)
               /\ z.req[y].left = IF Bubbled(y) THEN req[y].out ELSE due2[y]
    <3>1. y \in Reqs /\ y \in Elems(c.list.active) /\ z.req[y] = c.req[y] /\ due2[y] = due[y]
      BY <1>1, <1>2, <1>10, <1>11, <2>2
    <3> QED BY <2>1, <3>1
  <2>3. ASSUME ~g
        PROVE  /\ z.req[x].bubble <=> req[x].bubble
               /\ z.req[x].acked + Cardinality(due2[x]) = Cardinality(req[x].out)
               /\ z.req[x].left = IF Bubbled(x) THEN req[x].out ELSE due2[x]
    BY <1>3, <1>4, <1>8, <1>10, <1>17, <2>3
  <2>4. x \in Elems(z.list.active) => ~g
    BY <1>11
  <2> QED BY <2>2, <2>3, <2>4
<1>19. \A y \in A : y \notin Elems(z.list.active) =>
         IF Bubbled(y) THEN z.req[y].acked = 0 /\ z.req[y].left = req[y].out /\ ~z.req[y].bubble
         ELSE z.req[y].acked = Cardinality(req[y].out) /\ z.req[y].left = {}
  <2>1. \A y \in A : y \notin Elems(c.list.active) =>
         IF Bubbled(y) THEN c.req[y].acked = 0 /\ c.req[y].left = req[y].out /\ ~c.req[y].bubble
         ELSE c.req[y].acked = Cardinality(req[y].out) /\ c.req[y].left = {}
    BY DEF Handling
  <2>2. ASSUME NEW y \in A, y \notin Elems(z.list.active), y # x
        PROVE  IF Bubbled(y) THEN z.req[y].acked = 0 /\ z.req[y].left = req[y].out /\ ~z.req[y].bubble
               ELSE z.req[y].acked = Cardinality(req[y].out) /\ z.req[y].left = {}
    <3>1. y \in Reqs /\ y \notin Elems(c.list.active) /\ z.req[y] = c.req[y]
      BY <1>2, <1>10, <1>11, <2>2
    <3> QED BY <2>1, <3>1
  <2>3. ASSUME g
        PROVE  IF Bubbled(x) THEN z.req[x].acked = 0 /\ z.req[x].left = req[x].out /\ ~z.req[x].bubble
               ELSE z.req[x].acked = Cardinality(req[x].out) /\ z.req[x].left = {}
    <3>1. due2[x] = {} /\ Cardinality(due2[x]) = 0
      BY <1>4, <1>7, <2>3 DEF gone
    <3>2. Cardinality(due[x]) = Cardinality(M)
      BY <1>4, <3>1
    <3>3. c.req[x].acked + Cardinality(M) = Cardinality(req[x].out)
      BY <1>3, <3>2
    <3>4. CASE b
      <4>1. z.req[x].acked = 0 /\ z.req[x].left = req[x].out /\ ~z.req[x].bubble /\ Bubbled(x)
        BY <1>8, <1>10, <1>17, <2>3, <3>4
      <4> QED BY <4>1
    <3>5. CASE ~b
      <4>1. z.req[x].acked = Cardinality(req[x].out) /\ z.req[x].left = {} /\ ~Bubbled(x)
        BY <1>8, <1>17, <3>1, <3>3, <3>5
      <4> QED BY <4>1
    <3> QED BY <3>4, <3>5
  <2>4. x \notin Elems(z.list.active) => g
    BY <1>11
  <2> QED BY <2>2, <2>3, <2>4
<1>20. Handling(z, due2, S)
  BY <1>10, <1>11, <1>12, <1>13, <1>14, <1>15, <1>16, <1>18, <1>19 DEF Handling
<1> QED BY <1>7, <1>9, <1>11, <1>20 DEF gone, Took

\* The buffers S are done: each is the oldest of its port, and its request is active.
Coming(S) ==
  /\ S \in SUBSET Ports
  /\ \A p \in S : /\ hw.todo[p] # <<>> /\ Head(hw.todo[p]) \in A
                  /\ p \in req[Head(hw.todo[p])].out
                  /\ Head(hw.todo[p]) # hw.loaded
                  /\ Head(hw.todo[p]) \in Elems(hw.todo[p])
                  /\ \A x \in Elems(hw.todo[p]) : Head(hw.todo[p]) <= x

\* The buffers that still have to come after those of ports S
DueAfter(S) == [x \in Reqs |-> Due(x) \ Came(S, x)]

\* The context before the acknowledgement of buffers S
Filling(S) == [isp |-> isp, list |-> list,
               req |-> [r \in Reqs |-> [req[r] EXCEPT !.filled = @ \cup {p \in S : Head(hw.todo[p]) = r}]]]

\* When buffers are done, their requests are active.
LEMMA ComingIs ==
  ASSUME IspInv, NEW S \in SUBSET Ports, Running,
         \A p \in S : hw.todo[p] # <<>> /\ (Head(hw.todo[p]) # hw.cur \/ ~hw.frame)
  PROVE  Coming(S)
<1>1. HwInv /\ IspType
  BY DEF IspInv
<1>2. ASSUME NEW p \in S PROVE /\ hw.todo[p] # <<>> /\ Head(hw.todo[p]) \in A
                  /\ p \in req[Head(hw.todo[p])].out
                  /\ Head(hw.todo[p]) # hw.loaded
                  /\ Head(hw.todo[p]) \in Elems(hw.todo[p])
                  /\ \A x \in Elems(hw.todo[p]) : Head(hw.todo[p]) <= x
  <2>1. hw.todo[p] \in Seq(Reqs) /\ Increasing(hw.todo[p]) /\ hw.todo[p] # <<>>
    BY <1>1 DEF HwInv, IspType, HwType
  <2> PICK h : h = Head(hw.todo[p])
    OBVIOUS
  <2>2. h \in Reqs /\ h \in Elems(hw.todo[p]) /\ \A x \in Elems(hw.todo[p]) : h <= x
    BY <2>1, HeadTail
  <2>3. (h \in A \/ Waits(h)) /\ p \in req[h].out /\ h # hw.loaded
    BY <1>1, <2>2 DEF HwInv
  <2>4. ~Waits(h)
    BY <1>1, <2>2, <2>3 DEF HwInv
  <2> QED BY <2>1, <2>2, <2>3, <2>4
<1> QED BY <1>2 DEF Coming

\* The handling starts from the invariant.
LEMMA FillingIs ==
  ASSUME IspInv, Running, NEW S, Coming(S)
  PROVE  /\ Handling(Filling(S), [x \in Reqs |-> Due(x)], S)
         /\ \A x \in Reqs : /\ Filling(S).req[x].left = req[x].left
                            /\ (x \notin A => Came(S, x) = {})
                            /\ Came(S, x) \subseteq Due(x)
<1>0. IspType /\ OrderInv /\ ReqInv /\ BubbleInv /\ SubInv
  BY DEF IspInv
<1> DEFINE due == [x \in Reqs |-> Due(x)]
<1>1. PICK c : c = Filling(S)
  OBVIOUS
<1>2. c.isp = isp /\ c.list = list /\ c = [isp |-> c.isp, list |-> c.list, req |-> c.req]
      /\ c.req = [r \in Reqs |-> [req[r] EXCEPT !.filled = req[r].filled \cup Came(S, r)]]
  BY <1>1 DEF Filling, Came
<1>3. ASSUME NEW x \in Reqs
      PROVE  /\ c.req[x] \in ReqType
             /\ c.req[x].kind = req[x].kind /\ c.req[x].out = req[x].out /\ c.req[x].left = req[x].left
             /\ c.req[x].acked = req[x].acked /\ (c.req[x].bubble <=> req[x].bubble)
             /\ c.req[x].report = req[x].report /\ c.req[x].recover = req[x].recover
             /\ c.req[x].filled = req[x].filled \cup Came(S, x)
             /\ c.req[x].ok = req[x].ok
  <2>1. req[x] \in ReqType
    BY <1>0 DEF IspType
  <2>2. Came(S, x) \in SUBSET Ports
    BY DEF Came, Coming
  <2>3. PICK n \in SUBSET Ports : n = req[x].filled \cup Came(S, x)
    BY <2>1, <2>2 DEF ReqType
  <2>4. c.req[x] = [req[x] EXCEPT !.filled = n]
    BY <1>2, <2>3
  <2> QED BY <2>1, <2>3, <2>4 DEF ReqType
<1>4. \A x \in Reqs : x \notin A => Came(S, x) = {}
  BY DEF Coming, Came
<1>5. \A x \in Reqs : Came(S, x) \subseteq Due(x)
  BY DEF Coming, Came, Due
<1>6. c \in [isp : CtxType, list : ListsType, req : [Reqs -> ReqType]]
  <2>1. c.req \in [Reqs -> ReqType]
    <3>1. c.req = [x \in Reqs |-> c.req[x]]
      BY <1>2
    <3> QED BY <1>3, <3>1
  <2>2. c.isp \in CtxType /\ c.list \in ListsType
    BY <1>0, <1>2 DEF IspType
  <2> QED BY <1>2, <2>1, <2>2
<1>7. /\ c.isp.sub = isp.sub /\ c.isp.last_applied = isp.last_applied /\ c.isp.last_flush = isp.last_flush
      /\ c.isp.cnt = Len(c.list.active)
      /\ c.isp.frame_cnt > 0 => c.isp.process_bubble /\ c.isp.frame_cnt = isp.frame_cnt
      /\ (c.isp.process_bubble <=> \E x \in Elems(c.list.active) : Bubbled(x))
      /\ c.list.wait = list.wait
      /\ Increasing(c.list.pending) /\ Increasing(c.list.active)
      /\ Len(c.list.active) <= Len(list.active) /\ Elems(c.list.active) \subseteq A
      /\ Elems(c.list.pending) = P \cup {x \in A : Bubbled(x) /\ x \notin Elems(c.list.active)}
  <2>1. Elems(c.list.active) = A /\ Elems(c.list.pending) = P
    BY <1>2 DEF A, P
  <2>2. isp.cnt = Len(list.active) /\ Len(list.active) \in Nat
    BY <1>0, ListFacts, ElemsOf DEF SubInv
  <2>3. (isp.process_bubble <=> \E x \in A : Bubbled(x)) /\ (isp.frame_cnt > 0 => isp.process_bubble)
    BY <1>0 DEF BubbleInv
  <2> QED BY <1>0, <1>2, <2>1, <2>2, <2>3 DEF OrderInv
<1>8. \A x \in Reqs : due[x] = Due(x) /\ due[x] \subseteq req[x].out
  BY DEF Due
<1>9. /\ \A x \in A : /\ req[x].acked + Cardinality(due[x]) = Cardinality(req[x].out)
                      /\ req[x].left = IF Bubbled(x) THEN req[x].out ELSE due[x]
      /\ A \subseteq Reqs
  <2>1. A \subseteq Reqs
    BY <1>0, ListFacts
  <2> QED BY <1>0, <1>8, <2>1 DEF ReqInv
<1>10. Elems(c.list.active) = A
  BY <1>2 DEF A
<1> HIDE DEF due
<1>11. Handling(c, due, S)
  BY <1>3, <1>6, <1>7, <1>8, <1>9, <1>10 DEF Handling
<1> QED BY <1>1, <1>3, <1>4, <1>5, <1>11 DEF due

\* The context d after the buffers S are done: the requests that are complete are off the list.
Completed(d, S) ==
  /\ Handling(d, DueAfter(S), S)
  /\ \A x \in A : x \notin Elems(d.list.active) => DueAfter(S)[x] = {} /\ x # hw.loaded
  /\ \A x \in Elems(d.list.active) : req[x].out = {} \/ DueAfter(S)[x] # {}

\* The first active request takes the buffers that are its own.
LEMMA FirstTakes ==
  ASSUME IspInv, Running, NEW S, Coming(S), S # {}
  PROVE  /\ list.active # <<>> /\ Head(list.active) \in A /\ Head(list.active) # hw.loaded
         /\ S \cap req[Head(list.active)].left = Came(S, Head(list.active))
<1>0. IspType /\ OrderInv /\ ReqInv /\ BubbleInv /\ HwInv /\ HolderInv
  BY DEF IspInv
<1>1. PICK p0 \in S : Head(hw.todo[p0]) \in A /\ Head(hw.todo[p0]) # hw.loaded
  BY DEF Coming
<1>2. list.active # <<>> /\ A \subseteq Reqs
  BY <1>0, <1>1, ListFacts
<1> PICK r : r = Head(list.active)
  OBVIOUS
<1>3. r \in A /\ r \in Reqs /\ \A x \in A : r <= x
  BY <1>0, <1>2, ListFacts
<1>4. ~Waits(r)
  BY <1>0, <1>3, ListFacts DEF Waits, HolderInv, Applying
<1>5. r # hw.loaded
  <2> SUFFICES ASSUME r = hw.loaded PROVE FALSE
    OBVIOUS
  <2>1. \A x \in A : x <= r
    BY <1>0, <1>3, <1>4, NoReqIs DEF HwInv
  <2>2. Head(hw.todo[p0]) = r
    BY <1>1, <1>2, <1>3, <2>1, NoReqIs
  <2> QED BY <1>1, <2>2
<1>6. CASE Bubbled(r)
  <2>1. \A x \in A : x = r
    <3>1. r = isp.last_applied /\ \A x \in A : x <= isp.last_applied
      BY <1>0, <1>3, <1>6 DEF BubbleInv
    <3> QED BY <1>2, <1>3, <3>1, NoReqIs
  <2>2. \A p \in S : Head(hw.todo[p]) = r /\ p \in req[r].out
    BY <2>1 DEF Coming
  <2>3. req[r].left = req[r].out
    BY <1>0, <1>3, <1>6 DEF ReqInv
  <2> QED BY <1>2, <1>3, <1>5, <2>2, <2>3 DEF Came
<1>7. CASE ~Bubbled(r)
  <2>1. req[r].left = Due(r)
    BY <1>0, <1>3, <1>7 DEF ReqInv
  <2>2. ASSUME NEW p \in S, p \in Due(r) PROVE Head(hw.todo[p]) = r
    <3>1. r \in Elems(hw.todo[p])
      BY <1>5, <2>2 DEF Due
    <3>2. PICK h : h = Head(hw.todo[p])
      OBVIOUS
    <3>3. h <= r /\ h \in A
      BY <3>1, <3>2 DEF Coming
    <3>4. h = r
      BY <1>2, <1>3, <3>3, NoReqIs
    <3> QED BY <3>2, <3>4
  <2>3. ASSUME NEW p \in S, Head(hw.todo[p]) = r PROVE p \in Due(r)
    BY <2>3 DEF Coming, Due
  <2> QED BY <1>2, <1>3, <1>5, <2>1, <2>2, <2>3 DEF Came
<1> QED BY <1>6, <1>7

\* Buffers of the first active request, then those of the last one, are handled.
LEMMA DoneIs ==
  ASSUME IspInv, Running, NEW S, Coming(S), S # {}
  PROVE  Completed(Done(Filling(S), S), S)
<1>0. IspType /\ OrderInv /\ ReqInv
  BY DEF IspInv
<1> PICK c : c = Filling(S)
  OBVIOUS
<1> PICK due : due = [x \in Reqs |-> Due(x)]
  OBVIOUS
<1>1. /\ Handling(c, due, S) /\ c.list = list /\ S \in SUBSET Ports
      /\ \A x \in Reqs : c.req[x].left = req[x].left /\ (x \notin A => Came(S, x) = {})
                         /\ Came(S, x) \subseteq Due(x)
  BY FillingIs, ZenonT(60) DEF Coming, Filling
<1> PICK r : r = Head(list.active)
  OBVIOUS
<1>2. /\ list.active # <<>> /\ r \in A /\ r # hw.loaded /\ S \cap req[r].left = Came(S, r)
      /\ r \in Reqs /\ A \subseteq Reqs /\ Elems(c.list.active) = A
      /\ \A x \in A : r <= x
  BY <1>0, <1>1, FirstTakes, ListFacts DEF A
<1> PICK l : l = list.active[Len(list.active)]
  OBVIOUS
<1>3. l \in A /\ l \in Reqs /\ A = {r, l} /\ \A x \in A : x <= l
  BY <1>0, <1>2, ListFacts, LastOf, ShortList DEF OrderInv, A
<1>4. PICK rest : rest = S \ c.req[r].left
  OBVIOUS
<1>5. rest = S \ Came(S, r) /\ rest \in SUBSET Ports
  BY <1>1, <1>2, <1>4
<1>6. rest # {} => l # r /\ l # hw.loaded
  <2> SUFFICES ASSUME NEW p \in rest PROVE l # r /\ l # hw.loaded
    OBVIOUS
  <2>1. p \in S /\ Head(hw.todo[p]) # r /\ Head(hw.todo[p]) \in A /\ Head(hw.todo[p]) # hw.loaded
    BY <1>5 DEF Came, Coming
  <2> QED BY <1>3, <2>1
<1>7. l # r => rest = Came(S, l)
  BY <1>3, <1>5 DEF Came, Coming
<1>8. \A x \in A : req[x].out = {} \/ Due(x) # {}
  BY <1>0, <1>2 DEF ReqInv
<1> PICK c1 : c1 = DoneFor(c, r, S)
  OBVIOUS
<1> PICK due1 : due1 = [x \in Reqs |-> IF x = r THEN Due(r) \ Came(S, r) ELSE Due(x)]
  OBVIOUS
<1>9. /\ Handling(c1, due1, S)
      /\ Elems(c1.list.active) = IF due1[r] = {} THEN A \ {r} ELSE A
  <2>1. Takes(c, due, due1, S, r, S)
    BY <1>1, <1>2 DEF Takes
  <2>2. Took(c, due1, S, r, c1)
    BY <1>1, <2>1, HandleOne
  <2> QED BY <1>2, <2>2 DEF Took
<1>10. /\ c1.list.active \in Seq(Reqs) /\ Increasing(c1.list.active)
       /\ l # r => /\ c1.req[l].left = IF Bubbled(l) THEN req[l].out ELSE due1[l]
                   /\ l \in Elems(c1.list.active) /\ c1.list.active # <<>>
                   /\ c1.list.active[Len(c1.list.active)] = l
  <2>1. c1.list.active \in Seq(Reqs) /\ Increasing(c1.list.active)
    BY <1>9 DEF Handling, ListsType
  <2>2. ASSUME l # r
        PROVE  /\ l \in Elems(c1.list.active) /\ c1.list.active # <<>>
               /\ c1.list.active[Len(c1.list.active)] = l
    <3>1. l \in Elems(c1.list.active) /\ Elems(c1.list.active) \subseteq A
      BY <1>3, <1>9, <2>2
    <3>2. c1.list.active # <<>>
      BY <2>1, <3>1, ElemsOf
    <3>3. PICK z : z = c1.list.active[Len(c1.list.active)]
      OBVIOUS
    <3>4. z \in Elems(c1.list.active) /\ l <= z
      BY <2>1, <3>1, <3>2, <3>3, LastOf
    <3>5. z = l
      BY <1>2, <1>3, <3>1, <3>4, NoReqIs
    <3> QED BY <3>1, <3>2, <3>3, <3>5
  <2>3. l # r => c1.req[l].left = IF Bubbled(l) THEN req[l].out ELSE due1[l]
    BY <1>9, <2>2 DEF Handling
  <2> QED BY <2>1, <2>2, <2>3
<1> PICK da : da = DueAfter(S)
  OBVIOUS
<1>11. /\ da = [x \in Reqs |-> Due(x) \ Came(S, x)]
       /\ \A x \in Reqs : x \notin {r, l} => Came(S, x) = {}
  BY <1>1, <1>3 DEF DueAfter
<1>12. CASE rest = {}
  <2>1. Done(c, S) = c1
    BY <1>1, <1>2, <1>4, <1>12 DEF Done
  <2>2. due1 = da
    <3>1. \A x \in Reqs : x # r => Came(S, x) = {}
      BY <1>7, <1>11, <1>12
    <3>2. \A x \in Reqs : due1[x] = Due(x) \ Came(S, x)
      BY <3>1
    <3>3. due1 = [x \in Reqs |-> due1[x]]
      OBVIOUS
    <3> QED BY <1>11, <3>2, <3>3
  <2>3. \A x \in A : x \notin Elems(c1.list.active) => da[x] = {} /\ x # hw.loaded
    BY <1>2, <1>9, <2>2
  <2>4. \A x \in Elems(c1.list.active) : req[x].out = {} \/ da[x] # {}
    <3>1. ASSUME NEW x \in Elems(c1.list.active), x # r PROVE da[x] = Due(x) /\ x \in A
      BY <1>2, <1>9, <2>2, <3>1
    <3>2. r \in Elems(c1.list.active) => da[r] # {}
      BY <1>9, <2>2
    <3> QED BY <1>8, <3>1, <3>2
  <2> QED BY <1>9, <2>1, <2>2, <2>3, <2>4 DEF Completed
<1>13. CASE rest # {}
  <2>0. l # r /\ l # hw.loaded /\ rest = Came(S, l)
    BY <1>6, <1>7, <1>13
  <2>1. Done(c, S) = DoneFor(c1, l, rest)
    <3>1. c1.list.active # <<>> /\ c1.list.active[Len(c1.list.active)] = l
      BY <1>10, <2>0
    <3> QED BY <1>1, <1>2, <1>4, <1>13, <2>0, <3>1 DEF Done
  <2>2. rest \cap c1.req[l].left = Came(S, l)
    <3>1. Came(S, l) \subseteq Due(l) /\ Due(l) \subseteq req[l].out /\ due1[l] = Due(l)
      BY <1>1, <1>3, <2>0 DEF Due
    <3>2. c1.req[l].left = IF Bubbled(l) THEN req[l].out ELSE due1[l]
      BY <1>10, <2>0
    <3> QED BY <2>0, <3>1, <3>2
  <2>3. Takes(c1, due1, da, S, l, rest)
    <3>1. Came(S, l) \subseteq due1[l] /\ da[l] = due1[l] \ Came(S, l)
      BY <1>1, <1>3, <1>11, <2>0
    <3>2. \A y \in Reqs : y # l => da[y] = due1[y]
      BY <1>11, <1>2
    <3> QED BY <1>5, <1>9, <1>10, <2>0, <2>2, <3>1, <3>2 DEF Takes
  <2> PICK d : d = DoneFor(c1, l, rest)
    OBVIOUS
  <2>4. Took(c1, da, S, l, d)
    BY <1>1, <2>3, HandleOne
  <2>5. /\ Handling(d, da, S)
        /\ Elems(d.list.active) = IF da[l] = {} THEN Elems(c1.list.active) \ {l} ELSE Elems(c1.list.active)
    BY <2>4 DEF Took
  <2>8. da[r] = due1[r]
    BY <1>2, <1>11
  <2>9. \A x \in A : x \in Elems(c1.list.active) <=> x # r \/ due1[r] # {}
    BY <1>9
  <2>10. \A x \in A : x \in Elems(d.list.active) <=> x \in Elems(c1.list.active) /\ (x # l \/ da[l] # {})
    BY <2>5
  <2>11. Elems(d.list.active) \subseteq A
    BY <1>9, <2>5
  <2>12. \A x \in A : x = r \/ x = l
    BY <1>3
  <2>6. \A x \in A : x \notin Elems(d.list.active) => da[x] = {} /\ x # hw.loaded
    <3> SUFFICES ASSUME NEW x \in A, x \notin Elems(d.list.active) PROVE da[x] = {} /\ x # hw.loaded
      OBVIOUS
    <3>1. (x = r /\ due1[r] = {}) \/ (x = l /\ da[l] = {})
      BY <2>9, <2>10
    <3> QED BY <1>2, <2>0, <2>8, <3>1
  <2>7. \A x \in Elems(d.list.active) : da[x] # {}
    <3> SUFFICES ASSUME NEW x \in Elems(d.list.active) PROVE da[x] # {}
      OBVIOUS
    <3>1. x \in A
      BY <2>11
    <3>2. x \in Elems(c1.list.active) /\ (x = l => da[l] # {})
      BY <2>10, <3>1
    <3>3. x = r => due1[r] # {}
      BY <2>9, <3>1, <3>2
    <3> QED BY <2>8, <2>12, <3>1, <3>2, <3>3
  <2> QED BY <2>1, <2>5, <2>6, <2>7 DEF Completed
<1> QED BY <1>12, <1>13

\* The context in which buffers are done, and the one after it
LEMMA BufDoneIs ==
  ASSUME IspInv, NEW S \in (SUBSET Ports) \ {{}}, BufDone(S)
  PROVE  /\ Running /\ Coming(S) /\ S # {} /\ UNCHANGED <<state, holder, crm, errs>>
         /\ isp.sub \notin {"SOF", "HW_ERROR", "HALT"}
         /\ \E d : isp' = d.isp /\ list' = d.list /\ req' = d.req /\ Completed(d, S)
         /\ hw' = [hw EXCEPT !.todo = [p \in Ports |-> IF p \in S THEN Tail(hw.todo[p]) ELSE hw.todo[p]]]
<1>0. S \in SUBSET Ports /\ S # {} /\ IspType /\ OrderInv
  BY DEF IspInv
<1>1. /\ Running /\ \A p \in S : hw.todo[p] # <<>> /\ (Head(hw.todo[p]) # hw.cur \/ ~hw.frame)
  BY DEF BufDone
<1>2. Coming(S)
  BY <1>0, <1>1, ComingIs
<1>3. list.active # <<>>
  BY <1>0, <1>1, <1>2, FirstTakes
<1>4. isp.sub \notin {"SOF", "HW_ERROR", "HALT"}
  BY <1>1, <1>3 DEF IspInv, SubInv
<1>5. Completed(Done(Filling(S), S), S)
  BY <1>0, <1>1, <1>2, DoneIs
<1>6. isp' = Done(Filling(S), S).isp /\ list' = Done(Filling(S), S).list /\ req' = Done(Filling(S), S).req
  BY <1>4 DEF BufDone, Filling
<1>7. UNCHANGED <<state, holder, crm, errs>>
      /\ hw' = [hw EXCEPT !.todo = [p \in Ports |-> IF p \in S THEN Tail(hw.todo[p]) ELSE hw.todo[p]]]
  BY DEF BufDone
<1> QED BY <1>0, <1>1, <1>2, <1>4, <1>5, <1>6, <1>7

\* The hardware after the buffers are done
LEMMA HwAfter ==
  ASSUME IspInv, Running, NEW S, Coming(S),
         hw' = [hw EXCEPT !.todo = [p \in Ports |-> IF p \in S THEN Tail(hw.todo[p]) ELSE hw.todo[p]]]
  PROVE  /\ hw' \in HwType
         /\ hw'.frame = hw.frame /\ hw'.cur = hw.cur /\ hw'.rup = hw.rup /\ hw'.loaded = hw.loaded
         /\ \A p \in Ports : /\ Increasing(hw'.todo[p])
                             /\ Elems(hw'.todo[p]) \subseteq Elems(hw.todo[p])
                             /\ \A x \in Elems(hw.todo[p]) :
                                  x \in Elems(hw'.todo[p]) <=> ~(p \in S /\ x = Head(hw.todo[p]))
<1>1. hw \in HwType /\ \A p \in Ports : Increasing(hw.todo[p])
  BY DEF IspInv, HwInv, IspType
<1> PICK t : t = [p \in Ports |-> IF p \in S THEN Tail(hw.todo[p]) ELSE hw.todo[p]]
  OBVIOUS
<1>2. ASSUME NEW p \in Ports
      PROVE  /\ t[p] \in Seq(Reqs) /\ Increasing(t[p]) /\ Elems(t[p]) \subseteq Elems(hw.todo[p])
             /\ \A x \in Elems(hw.todo[p]) :
                                  x \in Elems(t[p]) <=> ~(p \in S /\ x = Head(hw.todo[p]))
  <2>1. hw.todo[p] \in Seq(Reqs)
    BY <1>1 DEF HwType
  <2>2. CASE p \in S
    <3>1. hw.todo[p] # <<>>
      BY <2>2 DEF Coming
    <3>2. t[p] = Tail(hw.todo[p])
      BY <2>2
    <3> QED BY <1>1, <2>1, <2>2, <3>1, <3>2, HeadTail
  <2>3. CASE p \notin S
    BY <1>1, <2>1, <2>3
  <2> QED BY <2>2, <2>3
<1>3. t \in [Ports -> Seq(Reqs)]
  BY <1>2
<1>4. /\ hw' \in HwType /\ hw'.todo = t
      /\ hw'.frame = hw.frame /\ hw'.cur = hw.cur /\ hw'.rup = hw.rup /\ hw'.loaded = hw.loaded
  BY <1>1, <1>3 DEF HwType
<1> QED BY <1>2, <1>4

\* What is left due after the buffers are done
LEMMA DueIs ==
  ASSUME IspInv, NEW S \in (SUBSET Ports) \ {{}}, BufDone(S), \A x \in Reqs : req'[x].out = req[x].out
  PROVE  \A x \in Reqs : Due(x)' = DueAfter(S)[x]
<1>0. IspType /\ Coming(S) /\ Running
  BY BufDoneIs DEF IspInv
<1>1. /\ hw'.loaded = hw.loaded
      /\ \A p \in Ports : /\ Elems(hw'.todo[p]) \subseteq Elems(hw.todo[p])
                          /\ \A x \in Elems(hw.todo[p]) :
                               x \in Elems(hw'.todo[p]) <=> ~(p \in S /\ x = Head(hw.todo[p]))
  BY <1>0, BufDoneIs, HwAfter
<1> SUFFICES ASSUME NEW x \in Reqs PROVE Due(x)' = DueAfter(S)[x]
  OBVIOUS
<1>2. req[x].out \subseteq Ports /\ req'[x].out = req[x].out
  BY <1>0 DEF IspType, ReqType
<1>3. DueAfter(S)[x] = {p \in req[x].out : (hw.loaded = x \/ x \in Elems(hw.todo[p]))
                                            /\ ~(p \in S /\ Head(hw.todo[p]) = x)}
  BY DEF DueAfter, Came, Due
<1>4. Due(x)' = {p \in req[x].out : hw.loaded = x \/ x \in Elems(hw'.todo[p])}
  BY <1>1, <1>2 DEF Due
<1>5. \A p \in req[x].out : (hw.loaded = x \/ x \in Elems(hw'.todo[p]))
                         <=> ((hw.loaded = x \/ x \in Elems(hw.todo[p]))
                                            /\ ~(p \in S /\ Head(hw.todo[p]) = x))
  BY <1>0, <1>1, <1>2 DEF Coming
<1> QED BY <1>3, <1>4, <1>5

\* What changes when buffers are done: requests leave the active list, a bubble to the pending one.
Settling(S) ==
  /\ Running' /\ state' = state /\ holder' = holder /\ crm' = crm /\ errs' = errs
  /\ isp' \in CtxType /\ list' \in ListsType /\ req' \in [Reqs -> ReqType] /\ hw' \in HwType
  /\ isp'.sub = isp.sub /\ isp'.last_applied = isp.last_applied /\ isp'.last_flush = isp.last_flush
  /\ isp'.cnt = Len(list'.active) /\ isp.sub \notin {"SOF", "HW_ERROR", "HALT"}
  /\ isp'.frame_cnt > 0 => isp'.process_bubble /\ isp'.frame_cnt = isp.frame_cnt
  /\ list'.wait = list.wait /\ W' = W /\ A' \subseteq A
  /\ Len(list'.active) \in Nat /\ Len(list'.active) <= Len(list.active)
  /\ Increasing(list'.pending) /\ Increasing(list'.active)
  /\ Taken' = Taken /\ (Applying' <=> Applying) /\ (Flushing' <=> Flushing) /\ (Latching' <=> Latching)
  /\ Ahead' = Ahead /\ \A x : Waits(x)' <=> Waits(x)
  /\ \A x \in Reqs : /\ req'[x].kind = req[x].kind /\ req'[x].out = req[x].out
                     /\ req'[x].report = req[x].report /\ req'[x].recover = req[x].recover
                     /\ Due(x)' \subseteq Due(x) /\ (x \notin A => Due(x)' = Due(x))
                     /\ x \in A /\ x \notin A' => Due(x)' = {} /\ x # hw.loaded
  /\ \A x \in Reqs : x \notin A =>
       req'[x].left = req[x].left /\ req'[x].acked = req[x].acked /\ (req'[x].bubble <=> req[x].bubble)
  /\ \A x \in A' : /\ (req'[x].bubble <=> req[x].bubble) /\ (Bubbled(x)' <=> Bubbled(x))
                   /\ req'[x].acked + Cardinality(Due(x)') = Cardinality(req[x].out)
                   /\ req'[x].left = IF Bubbled(x) THEN req[x].out ELSE Due(x)'
                   /\ req[x].out # {} => Due(x)' # {}
  /\ \A x \in A : x \notin A' =>
       IF Bubbled(x) THEN req'[x].acked = 0 /\ req'[x].left = req[x].out /\ ~req'[x].bubble
       ELSE req'[x].acked = Cardinality(req[x].out) /\ req'[x].left = {}

\* Whether the bubble is over
Resolved ==
  /\ P' = P \/ (P' = P \cup {isp.last_applied} /\ W = {} /\ isp.process_bubble /\ ~isp'.process_bubble
                /\ isp.last_applied \in A /\ isp.last_applied \notin A' /\ Bubbled(isp.last_applied)
                /\ list'.pending # <<>> /\ Head(list'.pending) = isp.last_applied)
  /\ isp.process_bubble /\ ~isp'.process_bubble => P' # P
  /\ isp'.process_bubble => isp.process_bubble /\ isp.last_applied \in A'
  /\ isp'.process_bubble <=> \E x \in A' : Bubbled(x)

\* What BufDone does to the context, and to what is due
LEMMA SettlingIs ==
  ASSUME IspInv, NEW S \in (SUBSET Ports) \ {{}}, BufDone(S)
  PROVE  /\ Settling(S)
         /\ P' = P \cup {x \in A : Bubbled(x) /\ x \notin A'}
         /\ isp'.process_bubble <=> \E x \in A' : Bubbled(x)
<1>0. IspType /\ OrderInv /\ A \subseteq Reqs /\ list.wait \in Seq(Reqs)
  BY ListFacts DEF IspInv
<1>1. /\ Running /\ Coming(S) /\ state' = state /\ holder' = holder /\ crm' = crm /\ errs' = errs
      /\ isp.sub \notin {"SOF", "HW_ERROR", "HALT"}
  BY BufDoneIs
<1> PICK d : isp' = d.isp /\ list' = d.list /\ req' = d.req /\ Completed(d, S)
  BY BufDoneIs
<1>2. Handling(d, DueAfter(S), S)
  BY DEF Completed
<1>3. Elems(d.list.active) = A' /\ Elems(d.list.pending) = P' /\ Elems(d.list.wait) = W'
  BY DEF A, P, W
<1>4. /\ isp' \in CtxType /\ list' \in ListsType /\ req' \in [Reqs -> ReqType]
      /\ isp'.sub = isp.sub /\ isp'.last_applied = isp.last_applied /\ isp'.last_flush = isp.last_flush
      /\ isp'.cnt = Len(list'.active)
      /\ isp'.frame_cnt > 0 => isp'.process_bubble /\ isp'.frame_cnt = isp.frame_cnt
      /\ (isp'.process_bubble <=> \E x \in A' : Bubbled(x))
      /\ list'.wait = list.wait /\ A' \subseteq A
      /\ Len(list'.active) <= Len(list.active)
      /\ Increasing(list'.pending) /\ Increasing(list'.active)
      /\ P' = P \cup {x \in A : Bubbled(x) /\ x \notin A'}
  BY <1>2, <1>3 DEF Handling
<1>5. \A x \in Reqs : /\ req'[x].kind = req[x].kind /\ req'[x].out = req[x].out
                      /\ req'[x].report = req[x].report /\ req'[x].recover = req[x].recover
  BY <1>2 DEF Handling
<1>6. \A x \in Reqs : x \notin A =>
       req'[x].left = req[x].left /\ req'[x].acked = req[x].acked /\ (req'[x].bubble <=> req[x].bubble)
  BY <1>2 DEF Handling
<1>7. \A x \in Reqs : Due(x)' = DueAfter(S)[x]
  BY <1>5, DueIs
<1>8. \A x \in A' : /\ (req'[x].bubble <=> req[x].bubble)
                    /\ req'[x].acked + Cardinality(DueAfter(S)[x]) = Cardinality(req[x].out)
                    /\ req'[x].left = IF Bubbled(x) THEN req[x].out ELSE DueAfter(S)[x]
                    /\ req[x].out # {} => DueAfter(S)[x] # {}
  BY <1>2, <1>3 DEF Handling, Completed
<1>9. \A x \in A : x \notin A' =>
       /\ IF Bubbled(x) THEN req'[x].acked = 0 /\ req'[x].left = req[x].out /\ ~req'[x].bubble
          ELSE req'[x].acked = Cardinality(req[x].out) /\ req'[x].left = {}
       /\ DueAfter(S)[x] = {} /\ x # hw.loaded
  BY <1>2, <1>3 DEF Handling, Completed
<1>10. \A x \in Reqs : DueAfter(S)[x] \subseteq Due(x) /\ (x \notin A => DueAfter(S)[x] = Due(x))
  BY <1>1 DEF DueAfter, Came, Coming
<1>11. hw' \in HwType
  BY <1>1, BufDoneIs, HwAfter
<1>12. Len(list'.active) \in Nat /\ W' = W
  BY <1>4, ElemsOf DEF ListsType, W
<1>13. /\ Running' /\ Taken' = Taken /\ (Applying' <=> Applying) /\ (Flushing' <=> Flushing)
       /\ (Latching' <=> Latching) /\ Ahead' = Ahead /\ (\A x : Waits(x)' <=> Waits(x))
  BY <1>1, <1>4, <1>5, <1>12 DEF Running, Taken, Applying, Flushing, Latching, Ahead, Waits
<1>14. \A x \in A' : Bubbled(x)' <=> Bubbled(x)
  BY <1>0, <1>4, <1>5, <1>8 DEF Bubbled
<1>15. A' \subseteq Reqs
  BY <1>0, <1>4
<1>16. \A x \in Reqs : /\ Due(x)' \subseteq Due(x) /\ (x \notin A => Due(x)' = Due(x))
                       /\ x \in A /\ x \notin A' => Due(x)' = {} /\ x # hw.loaded
  BY <1>7, <1>9, <1>10
<1>17. \A x \in A' : /\ req'[x].acked + Cardinality(Due(x)') = Cardinality(req[x].out)
                     /\ req'[x].left = IF Bubbled(x) THEN req[x].out ELSE Due(x)'
                     /\ req[x].out # {} => Due(x)' # {}
  BY <1>7, <1>8, <1>15
<1>18. Settling(S)
  BY <1>1, <1>4, <1>5, <1>6, <1>8, <1>9, <1>11, <1>12, <1>13, <1>14, <1>16, <1>17 DEF Settling
<1> QED BY <1>4, <1>18

\* When the bubble is complete it is the head of the pending list.
LEMMA ResolvedIs ==
  ASSUME IspInv, NEW S \in (SUBSET Ports) \ {{}}, BufDone(S)
  PROVE  Resolved
<1>0. IspType /\ OrderInv /\ BubbleInv /\ Running
  BY BufDoneIs DEF IspInv
<1>1. /\ P' = P \cup {x \in A : Bubbled(x) /\ x \notin A'} /\ A' \subseteq A
      /\ (isp'.process_bubble <=> \E x \in A' : Bubbled(x))
      /\ list' \in ListsType /\ Increasing(list'.pending)
  BY SettlingIs DEF Settling
<1>2. /\ A \subseteq Reqs /\ P \subseteq Reqs /\ (\A x \in P : x \notin A) /\ (\A x \in A, y \in P : x < y)
  BY <1>0, ListFacts DEF OrderInv, Before
<1>3. /\ (isp.process_bubble <=> \E x \in A : Bubbled(x)) /\ (\A x \in A : Bubbled(x) => x = isp.last_applied)
      /\ isp.process_bubble => list.wait = <<>>
  BY <1>0 DEF BubbleInv
<1>4. isp.process_bubble => W = {}
  BY <1>0, <1>3, ListFacts
<1>5. ASSUME isp.process_bubble, ~isp'.process_bubble
      PROVE  /\ P' = P \cup {isp.last_applied} /\ isp.last_applied \in A /\ isp.last_applied \notin A'
             /\ Bubbled(isp.last_applied) /\ P' # P
             /\ list'.pending # <<>> /\ Head(list'.pending) = isp.last_applied
  <2>1. /\ isp.last_applied \in A /\ isp.last_applied \notin A' /\ Bubbled(isp.last_applied)
    BY <1>1, <1>3, <1>5
  <2>2. P' = P \cup {isp.last_applied} /\ isp.last_applied \notin P
    BY <1>1, <1>2, <1>3, <2>1
  <2>3. list'.pending \in Seq(Reqs) /\ P' = Elems(list'.pending)
    BY <1>1 DEF ListsType, P
  <2>4. \A x \in P' : isp.last_applied <= x
    <3> PICK l : l = isp.last_applied
      OBVIOUS
    <3>1. l \in Nat /\ P \subseteq Nat /\ \A x \in P : l < x
      BY <1>2, <2>1, NoReqIs
    <3> QED BY <2>2, <3>1
  <2>5. list'.pending # <<>> /\ Head(list'.pending) = isp.last_applied
    BY <1>1, <2>2, <2>3, <2>4, HeadIs
  <2> QED BY <2>1, <2>2, <2>5
<1>6. ASSUME ~isp.process_bubble PROVE P' = P /\ ~isp'.process_bubble
  BY <1>1, <1>3, <1>6
<1>7. ASSUME isp'.process_bubble PROVE P' = P /\ isp.process_bubble /\ isp.last_applied \in A'
  BY <1>1, <1>3, <1>7
<1> QED BY <1>1, <1>4, <1>5, <1>6, <1>7 DEF Resolved

\* Buffers of several ports, of one request or of two, keep the invariant.
LEMMA BufDoneStep == ASSUME IspInv, NEW S \in (SUBSET Ports) \ {{}}, BufDone(S) PROVE IspInv'
<1>0. IspType /\ OrderInv
  BY DEF IspInv
<1>1. Running /\ Coming(S) /\ hw' = [hw EXCEPT !.todo = [p \in Ports |-> IF p \in S THEN Tail(hw.todo[p]) ELSE hw.todo[p]]]
  BY BufDoneIs
<1>2. Settling(S) /\ Resolved
  BY SettlingIs, ResolvedIs
<1>3. /\ P \subseteq Reqs /\ W \subseteq Reqs /\ A \subseteq Reqs /\ list.pending \in Seq(Reqs)
      /\ (\A x \in P : x \notin W /\ x \notin A) /\ (\A x \in W : x \notin A)
      /\ Before(A, W) /\ Before(A, P) /\ Before(W, P)
      /\ (list.wait = <<>> <=> W = {})
      /\ (list.active = <<>> <=> A = {})
  BY <1>0, ListFacts DEF OrderInv
<1>4. /\ A' \subseteq A /\ W' = W
      /\ (P' = P \/ (P' = P \cup {isp.last_applied} /\ isp.last_applied \in A /\ isp.last_applied \notin A'
                     /\ W = {} /\ Bubbled(isp.last_applied) /\ isp.process_bubble /\ ~isp'.process_bubble))
  BY <1>2 DEF Settling, Resolved
<1>5. /\ (\A x \in A : x <= isp.last_applied)
      /\ (isp.process_bubble => list.wait = <<>>)
  BY <1>1 DEF IspInv, BubbleInv
<1>6. IspType'
  BY <1>0, <1>2 DEF IspType, Settling
<1>7. OrderInv'
  <2>1. Increasing(list'.pending) /\ Increasing(list'.active) /\ list'.wait = list.wait
        /\ Len(list'.active) \in Nat /\ Len(list'.active) <= Len(list.active)
    BY <1>2 DEF Settling
  <2>2. Len(list.wait) <= 1 /\ Len(list.active) <= 2 /\ Len(list.active) \in Nat
    BY <1>0, ListFacts, ElemsOf DEF OrderInv
  <2>3. Before(A', W') /\ Before(W', P')
    BY <1>3, <1>4 DEF Before
  <2>4. Before(A', P')
    <3>1. CASE P' = P
      BY <1>3, <1>4, <3>1 DEF Before
    <3>2. CASE P' # P
      <4> PICK l : l = isp.last_applied
        OBVIOUS
      <4>1. l \in A /\ l \notin A' /\ P' = P \cup {l} /\ (\A x \in A : x <= l) /\ A \subseteq Nat
        BY <1>3, <1>4, <1>5, <3>2, NoReqIs
      <4>2. \A x \in A' : x < l
        BY <1>4, <4>1
      <4> QED BY <1>3, <1>4, <4>1, <4>2 DEF Before
    <3> QED BY <3>1, <3>2
  <2> QED BY <2>1, <2>2, <2>3, <2>4 DEF OrderInv
<1>8. StateInv'
  <2>1. StateInv /\ crm.has \subseteq Reqs /\ BubbleInv BY <1>0 DEF IspInv, IspType, CrmType
  <2>2. /\ Running' /\ state' = state /\ crm' = crm /\ Taken' = Taken
        /\ \A x \in Reqs : req'[x].kind = req[x].kind
    BY <1>2 DEF Settling
  <2>3. ASSUME NEW x \in A, Bubbled(x) PROVE req[x].kind = "update"
    <3>1. req[x].kind \in {"none", "init", "update"} /\ req[x].kind # "none"
      BY <1>0, <1>3, <2>1, <2>3 DEF StateInv, Taken, IspType, ReqType
    <3> QED BY <1>1, <2>1, <2>3, <3>1 DEF BubbleInv, Bubbled
  <2>4. \A x \in P' : req'[x].kind = "update"
    <3>1. \A x \in P : req[x].kind = "update"
      BY <1>1, <2>1 DEF StateInv, Running
    <3> QED BY <1>3, <1>4, <2>2, <2>3, <3>1
  <2>5. P' \cup W' \cup A' \subseteq Taken' /\ \A x \in crm.has : req'[x].kind = "update"
    BY <1>4, <2>1, <2>2 DEF StateInv
  <2> QED BY <1>1, <2>2, <2>4, <2>5 DEF StateInv, Running
<1>9. IdInv'
  <2>1. IdInv /\ crm.has \subseteq Reqs BY <1>0 DEF IspInv, IspType, CrmType
  <2>2. /\ state' = state /\ crm' = crm /\ Taken' = Taken /\ isp'.last_flush = isp.last_flush
        /\ \A x \in Reqs : req'[x].kind = req[x].kind /\ req'[x].recover = req[x].recover
    BY <1>2 DEF Settling
  <2>3. P' \cup W' \cup A' \subseteq P \cup W \cup A
    BY <1>4
  <2>4. \A x, y \in crm.has \cup W' \cup A' :
       req'[x].kind = "update" /\ req'[y].kind = "update" => req'[x].recover = req'[y].recover
    BY <1>3, <1>4, <2>1, <2>2 DEF IdInv
  <2>5. /\ state' # "FLUSHED" => \A x \in P' \cup W' \cup A' : x > isp'.last_flush
        /\ isp'.last_flush \in Taken' \cup {NoReq}
        /\ \A x \in Reqs : req'[x].kind = "init" => ~req'[x].recover
    BY <2>1, <2>2, <2>3 DEF IdInv
  <2> QED BY <2>2, <2>4, <2>5 DEF IdInv
<1>10. HolderInv'
  <2>1. HolderInv BY DEF IspInv
  <2>2. /\ Running' /\ holder' = holder /\ (Applying' <=> Applying) /\ crm' = crm
        /\ isp'.sub = isp.sub /\ Len(list'.active) <= Len(list.active) /\ list'.wait = list.wait
        /\ Len(list'.active) \in Nat
        /\ list' \in ListsType /\ Increasing(list'.pending)
        /\ \A x \in Reqs : req'[x].report = req[x].report /\ req'[x].recover = req[x].recover
    BY <1>2 DEF Settling
  <2>3. ASSUME Applying
        PROVE  /\ list'.pending # <<>> /\ holder.req = Head(list'.pending) /\ ~isp'.process_bubble
               /\ holder.req \in Reqs
    <3>1. list.pending # <<>> /\ holder.req = Head(list.pending) /\ ~isp.process_bubble
      BY <2>1, <2>3 DEF HolderInv
    <3>2. P' = P /\ ~isp'.process_bubble
      BY <1>2, <3>1 DEF Resolved
    <3>3. holder.req \in P /\ \A x \in P : holder.req <= x
      BY <1>0, <3>1, ListFacts
    <3>4. list'.pending \in Seq(Reqs) /\ P' = Elems(list'.pending)
      BY <2>2 DEF ListsType, P
    <3> QED BY <1>3, <2>2, <3>2, <3>3, <3>4, HeadIs
  <2>4. Applying => /\ holder.sub \in {"APPLIED", "BUBBLE_APPLIED"} /\ isp.sub \in {"SOF", "EPOCH", "BUBBLE"}
                    /\ Len(list.active) <= 1 /\ list.wait = <<>> /\ ~crm.trigger
                    /\ req[holder.req].report = req[holder.req].recover
    BY <2>1 DEF HolderInv
  <2>5. holder = Nobody \/ (holder = Flusher /\ Running) \/ Applying
    BY <2>1 DEF HolderInv
  <2>6. Len(list.active) \in Nat
    BY <1>0, ListFacts, ElemsOf
  <2> QED BY <2>2, <2>3, <2>4, <2>5, <2>6 DEF HolderInv
<1>11. HwInv'
  <2>1. HwInv BY DEF IspInv
  <2>2. /\ hw'.frame = hw.frame /\ hw'.cur = hw.cur /\ hw'.rup = hw.rup /\ hw'.loaded = hw.loaded
        /\ \A p \in Ports : Increasing(hw'.todo[p]) /\ Elems(hw'.todo[p]) \subseteq Elems(hw.todo[p])
    BY <1>1, HwAfter
  <2>3. /\ crm' = crm /\ holder' = holder /\ isp'.sub = isp.sub /\ hw' \in HwType
        /\ (\A x : Waits(x)' <=> Waits(x))
        /\ \A x \in Reqs : /\ req'[x].out = req[x].out
                           /\ x \in A /\ x \notin A' => Due(x)' = {} /\ x # hw.loaded
    BY <1>2 DEF Settling
  <2>4. ASSUME NEW p \in Ports, NEW x \in Elems(hw'.todo[p])
        PROVE  (x \in A' \/ Waits(x)') /\ p \in req'[x].out /\ x # hw'.loaded
    <3>1. x \in Elems(hw.todo[p])
      BY <2>2
    <3>2. (x \in A \/ Waits(x)) /\ p \in req[x].out /\ x # hw.loaded
      BY <1>1, <2>1, <3>1 DEF HwInv
    <3>3. x \in Reqs
      BY <1>0, <3>1, ElemsOf DEF IspType, HwType
    <3>4. p \in Due(x)'
      BY <2>3, <3>2, <3>3 DEF Due
    <3> QED BY <2>2, <2>3, <3>2, <3>3, <3>4
  <2>5. hw'.loaded # NoReq /\ ~Waits(hw.loaded)' => hw'.loaded \in A' /\ ~hw'.frame /\ \A x \in A' : x <= hw'.loaded
    <3>1. ~Waits(hw.loaded) /\ hw.loaded # NoReq => hw.loaded \in A /\ ~hw.frame /\ \A x \in A : x <= hw.loaded
      BY <1>1, <2>1 DEF HwInv
    <3>2. Waits(hw.loaded)' <=> Waits(hw.loaded)
      BY <2>2, <2>3, <1>4 DEF Waits
    <3> PICK l : l = hw.loaded
      OBVIOUS
    <3>3. hw.loaded \in A => hw.loaded \in A'
      BY <1>3, <2>3
    <3> QED BY <1>4, <2>2, <3>1, <3>2, <3>3
  <2>6. crm'.trigger \/ holder'.op = "apply" => hw'.loaded = NoReq /\ (hw'.rup => isp'.sub = "HW_ERROR")
    BY <1>1, <2>1, <2>2, <2>3 DEF HwInv
  <2>7. /\ \A r \in Reqs : Waits(r)' => \/ hw'.loaded = r /\ ~hw'.rup
                                        \/ hw'.loaded = NoReq /\ hw'.frame /\ hw'.cur = r
        /\ hw'.rup => hw'.frame /\ hw'.loaded = NoReq
    BY <1>1, <2>1, <2>2, <2>3 DEF HwInv
  <2> QED BY <2>2, <2>4, <2>5, <2>6, <2>7 DEF HwInv
<1>12. SubInv'
  <2>1. SubInv BY DEF IspInv
  <2>2. /\ isp'.sub = isp.sub /\ isp'.cnt = Len(list'.active) /\ isp.sub \notin {"SOF", "HW_ERROR", "HALT"}
        /\ list'.wait = list.wait /\ crm' = crm /\ (Applying' <=> Applying) /\ (Latching' <=> Latching)
        /\ Len(list'.active) <= Len(list.active) /\ Len(list'.active) \in Nat
        /\ \A x \in Reqs : req'[x].kind = req[x].kind
    BY <1>2 DEF Settling
  <2>3. isp'.process_bubble => isp.process_bubble
    BY <1>2 DEF Resolved
  <2>4. list.wait # <<>> => Head(list.wait) \in Reqs
    BY <1>0, ListFacts
  <2>5. Len(list.active) \in Nat
    BY <1>0, ListFacts, ElemsOf
  <2>6. Latching => /\ list.wait # <<>> /\ req[Head(list.wait)].kind = "update" /\ Len(list.active) <= 1
                    /\ ~crm.trigger /\ ~Applying /\ ~isp.process_bubble
    BY <1>1, <2>1 DEF SubInv
  <2>7. ~Latching => list.wait = <<>>
    BY <1>1, <2>1, <2>2 DEF SubInv
  <2>8. Latching' => /\ list'.wait # <<>> /\ req'[Head(list'.wait)].kind = "update" /\ Len(list'.active) <= 1
                     /\ ~crm'.trigger /\ ~Applying' /\ ~isp'.process_bubble
    BY <2>2, <2>3, <2>4, <2>5, <2>6
  <2> QED BY <2>2, <2>7, <2>8 DEF SubInv
<1>13. BubbleInv'
  <2>1. BubbleInv BY DEF IspInv
  <2>2. /\ isp'.last_applied = isp.last_applied /\ isp'.sub = isp.sub /\ list'.wait = list.wait
        /\ isp'.frame_cnt > 0 => isp'.process_bubble /\ isp'.frame_cnt = isp.frame_cnt
        /\ Taken' = Taken
        /\ \A x \in A' : (req'[x].bubble <=> req[x].bubble) /\ (Bubbled(x)' <=> Bubbled(x))
        /\ \A x \in Reqs : /\ req'[x].kind = req[x].kind
                           /\ req'[x].report = req[x].report /\ req'[x].recover = req[x].recover
    BY <1>2 DEF Settling
  <2>3. (isp'.process_bubble => isp.process_bubble) /\ (isp'.process_bubble <=> \E x \in A' : Bubbled(x))
    BY <1>2 DEF Resolved
  <2>4. hw'.frame = hw.frame /\ hw'.cur = hw.cur /\ hw'.loaded = hw.loaded
    BY <1>1, HwAfter
  <2>5. /\ isp'.process_bubble <=> \E x \in A' : Bubbled(x)'
        /\ \A x \in A' : x <= isp'.last_applied /\ (Bubbled(x)' => x = isp'.last_applied)
    BY <1>1, <1>4, <2>1, <2>2, <2>3 DEF BubbleInv
  <2>6. /\ \A x \in W' : x = isp'.last_applied
        /\ isp'.last_applied \in Taken'
        /\ \A x \in A' \cup W' : req'[x].kind = "update" => req'[x].report = req'[x].recover
        /\ \A x \in A' : req'[x].kind = "init" => ~req'[x].bubble
    BY <1>1, <1>3, <1>4, <2>1, <2>2 DEF BubbleInv
  <2>7. /\ isp'.process_bubble => isp'.sub = "BUBBLE" /\ list'.wait = <<>> /\ (hw'.frame => hw'.loaded = NoReq)
        /\ isp'.frame_cnt > 0 => isp'.process_bubble /\ hw'.loaded = NoReq /\ (hw'.frame => hw'.cur = NoReq)
    BY <1>1, <2>1, <2>2, <2>3, <2>4 DEF BubbleInv
  <2> QED BY <2>5, <2>6, <2>7 DEF BubbleInv
<1>14. ReqInv'
  <2>1. ReqInv BY DEF IspInv
  <2>2. /\ \A x \in Reqs : req'[x].out = req[x].out /\ req'[x].kind = req[x].kind
        /\ \A x \in Reqs : x \notin A =>
             /\ req'[x].left = req[x].left /\ req'[x].acked = req[x].acked /\ (req'[x].bubble <=> req[x].bubble)
             /\ Due(x)' = Due(x)
        /\ \A x \in Reqs : Due(x)' \subseteq Due(x)
        /\ req' \in [Reqs -> ReqType] /\ Taken' = Taken /\ (\A x : Waits(x)' <=> Waits(x))
    BY <1>2 DEF Settling
  <2>3. \A x \in A' : /\ (Bubbled(x)' <=> Bubbled(x))
                      /\ req'[x].acked + Cardinality(Due(x)') = Cardinality(req[x].out)
                      /\ req'[x].left = IF Bubbled(x) THEN req[x].out ELSE Due(x)'
                      /\ req[x].out # {} => Due(x)' # {}
    BY <1>2 DEF Settling
  <2>4. \A x \in A : x \notin A' =>
          IF Bubbled(x) THEN req'[x].acked = 0 /\ req'[x].left = req[x].out /\ ~req'[x].bubble
          ELSE req'[x].acked = Cardinality(req[x].out) /\ req'[x].left = {}
    BY <1>2 DEF Settling
  <2>5. \A x \in Reqs : /\ req[x].out \in SUBSET Ports /\ Cardinality(req[x].out) \in Nat
                        /\ Due(x)' \subseteq req[x].out /\ Cardinality(Due(x)') \in Nat
                        /\ req'[x].acked \in Nat
    <3> SUFFICES ASSUME NEW x \in Reqs
                 PROVE  /\ req[x].out \in SUBSET Ports /\ Cardinality(req[x].out) \in Nat
                        /\ Due(x)' \subseteq req[x].out /\ Cardinality(Due(x)') \in Nat
                        /\ req'[x].acked \in Nat
      OBVIOUS
    <3>1. req[x].out \in SUBSET Ports /\ Due(x) \subseteq req[x].out /\ req'[x].acked \in Nat
      BY <1>0, <2>2 DEF IspType, ReqType, Due
    <3>2. PICK D \in SUBSET Ports : D = Due(x)'
      BY <2>2, <3>1
    <3>3. IsFiniteSet(D) /\ IsFiniteSet(req[x].out)
      BY <3>1, IspAssumption, FS_Subset
    <3>4. Cardinality(D) \in Nat /\ Cardinality(req[x].out) \in Nat
      BY <3>3, FS_CardinalityType
    <3> QED BY <2>2, <3>1, <3>2, <3>4
  <2>6. \A x \in Reqs : req'[x].left \subseteq req'[x].out /\ req'[x].acked <= Cardinality(req'[x].out)
    <3>1. ASSUME NEW x \in Reqs, x \notin A
          PROVE  req'[x].left \subseteq req'[x].out /\ req'[x].acked <= Cardinality(req'[x].out)
      BY <2>1, <2>2, <3>1 DEF ReqInv
    <3>2. ASSUME NEW x \in A'
          PROVE  req'[x].left \subseteq req'[x].out /\ req'[x].acked <= Cardinality(req'[x].out)
      <4>1. /\ x \in Reqs /\ req'[x].out = req[x].out /\ Due(x)' \subseteq req[x].out
            /\ Cardinality(req[x].out) \in Nat /\ Cardinality(Due(x)') \in Nat /\ req'[x].acked \in Nat
        BY <1>3, <1>4, <2>2, <2>5
      <4>2. req'[x].left = req[x].out \/ req'[x].left = Due(x)'
        BY <2>3
      <4>3. req'[x].acked + Cardinality(Due(x)') = Cardinality(req[x].out)
        BY <2>3
      <4> QED BY <4>1, <4>2, <4>3
    <3>3. ASSUME NEW x \in A, x \notin A'
          PROVE  req'[x].left \subseteq req'[x].out /\ req'[x].acked <= Cardinality(req'[x].out)
      BY <1>3, <2>2, <2>4, <2>5, <3>3, SMTT(60)
    <3> QED BY <3>1, <3>2, <3>3
  <2>7. \A x \in P' \cup W' : req'[x].acked = 0 /\ req'[x].left = req'[x].out /\ ~req'[x].bubble
    <3>1. \A x \in P \cup W : req'[x].acked = 0 /\ req'[x].left = req'[x].out /\ ~req'[x].bubble
      BY <1>3, <2>1, <2>2 DEF ReqInv
    <3>2. P' # P => /\ req'[isp.last_applied].acked = 0 /\ ~req'[isp.last_applied].bubble
                    /\ req'[isp.last_applied].left = req'[isp.last_applied].out
      BY <1>3, <1>4, <2>2, <2>4
    <3> QED BY <1>4, <3>1, <3>2
  <2>8. \A x \in A' : /\ req'[x].acked + Cardinality(Due(x)') = Cardinality(req'[x].out)
                      /\ req'[x].left = IF Bubbled(x)' THEN req'[x].out ELSE Due(x)'
                      /\ req'[x].out # {} => Due(x)' # {}
    <3>1. \A x \in A' : req'[x].out = req[x].out
      BY <1>3, <1>4, <2>2
    <3> QED BY <2>3, <3>1
  <2>9. \A x \in Reqs : Waits(x)' => Due(x)' = req'[x].out
    <3> SUFFICES ASSUME NEW x \in Reqs, Waits(x) PROVE Due(x)' = req'[x].out
      BY <2>2
    <3>1. x \notin A
      <4>1. holder.op = "config" => holder.req \in P
        <5>1. holder.op = "config" => list.pending # <<>> /\ holder.req = Head(list.pending)
          BY DEF IspInv, HolderInv, Applying
        <5> QED BY <1>0, <5>1, ListFacts
      <4> QED BY <1>3, <4>1 DEF Waits
    <3> QED BY <2>1, <2>2, <3>1 DEF ReqInv
  <2>10. \A x \in Taken' : x \notin P' \cup W' \cup A' => req'[x].left = {}
    <3> SUFFICES ASSUME NEW x \in Taken, x \notin P' \cup W' \cup A' PROVE req'[x].left = {}
      BY <2>2
    <3>0. x \in Reqs /\ x \notin P \cup W
      BY <1>4 DEF Taken
    <3>1. CASE x \in A
      <4>1. ~Bubbled(x)
        <5>1. P' = P \cup {y \in A : Bubbled(y) /\ y \notin A'}
          BY SettlingIs
        <5> QED BY <3>1, <5>1
      <4> QED BY <2>4, <3>1, <4>1
    <3>2. CASE x \notin A
      BY <2>1, <2>2, <3>0, <3>2 DEF ReqInv
    <3> QED BY <3>1, <3>2
  <2> QED BY <2>6, <2>7, <2>8, <2>9, <2>10 DEF ReqInv
<1>15. CrmInv'
  <2> PICK l : l = isp.last_applied
    OBVIOUS
  <2>1. CrmInv /\ crm.has \subseteq Reqs /\ crm.sent \in Nat BY <1>0 DEF IspInv, IspType, CrmType
  <2>2. /\ crm' = crm /\ isp'.last_applied = l /\ (Flushing' <=> Flushing) /\ (Applying' <=> Applying)
        /\ (Latching' <=> Latching) /\ list' \in ListsType /\ Increasing(list'.pending)
        /\ \A x \in Reqs : req'[x].kind = req[x].kind
    BY <1>2 DEF Settling
  <2>3. /\ P' = P \/ (P' = P \cup {l} /\ W = {} /\ isp.process_bubble /\ ~isp'.process_bubble
                      /\ l \in A /\ l \notin A' /\ Bubbled(l)
                      /\ list'.pending # <<>> /\ Head(list'.pending) = l)
        /\ isp.process_bubble /\ ~isp'.process_bubble => P' # P
        /\ isp'.process_bubble => isp.process_bubble /\ l \in A'
    BY <1>2 DEF Resolved
  <2> SUFFICES ASSUME ~Flushing
               PROVE  CrmInv'
    BY <2>2 DEF CrmInv
  <2>4. /\ P \subseteq crm.has
        /\ \A x \in A \cup W : req[x].kind = "update" => x \in crm.has
        /\ crm.sent <= l
        /\ crm.back # NoReq => crm.back = l /\ crm.sent = crm.back
        /\ crm.back # NoReq /\ ~isp.process_bubble => list.pending # <<>> /\ Head(list.pending) = crm.back
        /\ crm.back = NoReq /\ ~isp.process_bubble =>
             \A x \in A \cup W : req[x].kind = "update" => x <= crm.sent
        /\ crm.back = NoReq /\ isp.process_bubble => crm.sent = l - 1
        /\ Latching => crm.sent = l
        /\ Applying \/ Latching => crm.back = NoReq
    BY <1>1, <2>1 DEF CrmInv
  <2>5. P' \subseteq crm.has
    <3>1. P' # P => req[l].kind = "update"
      <4>1. A \subseteq Taken
        BY DEF IspInv, StateInv
      <4> QED BY <1>0, <1>1, <1>3, <2>3, <4>1 DEF IspInv, BubbleInv, Bubbled, Taken, IspType, ReqType
    <3> QED BY <2>3, <2>4, <3>1
  <2>6. \A x \in A' \cup W' : req'[x].kind = "update" => x \in crm.has
    BY <1>3, <1>4, <2>2, <2>4
  <2>7. crm.back # NoReq /\ ~isp'.process_bubble => list'.pending # <<>> /\ Head(list'.pending) = crm.back
    <3>1. CASE P' = P
      <4> SUFFICES ASSUME crm.back # NoReq, ~isp'.process_bubble
                   PROVE  list'.pending # <<>> /\ Head(list'.pending) = crm.back
        OBVIOUS
      <4>1. list.pending # <<>> /\ Head(list.pending) = crm.back
        BY <2>3, <2>4, <3>1
      <4>2. crm.back \in P /\ \A x \in P : crm.back <= x
        BY <1>0, <4>1, ListFacts
      <4>3. list'.pending \in Seq(Reqs) /\ P' = Elems(list'.pending)
        BY <2>2 DEF ListsType, P
      <4> QED BY <2>2, <3>1, <4>2, <4>3, HeadIs
    <3>2. CASE P' # P
      BY <2>3, <2>4, <3>2
    <3> QED BY <3>1, <3>2
  <2>8. crm.back = NoReq /\ ~isp'.process_bubble =>
             \A x \in A' \cup W' : req'[x].kind = "update" => x <= crm.sent
    <3>1. CASE ~isp.process_bubble
      BY <1>3, <1>4, <2>2, <2>4, <3>1
    <3>2. CASE isp.process_bubble
      <4> SUFFICES ASSUME crm.back = NoReq, ~isp'.process_bubble, NEW x \in A' \cup W' PROVE x <= crm.sent
        OBVIOUS
      <4>1. W = {} /\ l \notin A' /\ crm.sent = l - 1 /\ l \in A
        BY <2>3, <2>4, <3>2
      <4>2. x \in A /\ x <= l /\ x # l /\ x \in Nat /\ l \in Nat
        BY <1>3, <1>4, <1>5, <4>1, NoReqIs
      <4> QED BY <4>1, <4>2
    <3> QED BY <3>1, <3>2
  <2>9. crm.back = NoReq /\ isp'.process_bubble => crm.sent = l - 1
    BY <2>3, <2>4
  <2> QED BY <2>2, <2>4, <2>5, <2>6, <2>7, <2>8, <2>9 DEF CrmInv
<1>16. AheadInv'
  <2> PICK l : l = isp.last_applied
    OBVIOUS
  <2>1. /\ crm' = crm /\ isp'.last_applied = l /\ (Flushing' <=> Flushing) /\ Ahead' = Ahead
    BY <1>2 DEF Settling
  <2>2. /\ P' = P \/ (P' = P \cup {l} /\ isp.process_bubble /\ ~isp'.process_bubble /\ l \in A)
        /\ isp.process_bubble /\ ~isp'.process_bubble => P' # P
        /\ isp'.process_bubble => isp.process_bubble
    BY <1>2 DEF Resolved
  <2> SUFFICES ASSUME ~Flushing, ~crm.fatal PROVE AheadInv'
    BY <2>1 DEF AheadInv
  <2>3. Ahead = (P \cup (IF isp.process_bubble /\ crm.back = NoReq THEN {l} ELSE {}))
                  \ (IF ~isp.process_bubble /\ crm.back # NoReq THEN {crm.back} ELSE {})
    BY <1>1 DEF IspInv, AheadInv
  <2>4. crm.back # NoReq => crm.back = l
    BY <1>1 DEF IspInv, CrmInv
  <2>5. l \in A => l \notin P
    BY <1>3
  <2>6. Ahead = (P' \cup (IF isp'.process_bubble /\ crm.back = NoReq THEN {l} ELSE {}))
                  \ (IF ~isp'.process_bubble /\ crm.back # NoReq THEN {crm.back} ELSE {})
    <3>1. CASE P' = P
      <4>1. isp'.process_bubble <=> isp.process_bubble
        BY <2>2, <3>1
      <4> QED BY <2>3, <3>1, <4>1
    <3>2. CASE P' # P
      <4>1. P' = P \cup {l} /\ isp.process_bubble /\ ~isp'.process_bubble /\ l \notin P
        BY <2>2, <2>5, <3>2
      <4> QED BY <2>3, <2>4, <4>1
    <3> QED BY <3>1, <3>2
  <2> QED BY <2>1, <2>6 DEF AheadInv
<1> QED BY <1>6, <1>7, <1>8, <1>9, <1>10, <1>11, <1>12, <1>13, <1>14, <1>15, <1>16 DEF IspInv

-----------------------------------------------------------------------------
(* Hardware errors                                                            *)

\* All elements, or all but the first
LEMMA RestOf ==
  ASSUME NEW s \in Seq(Reqs), NEW n \in Nat
  PROVE  /\ n = 0 => SubSeq(s, n + 1, Len(s)) = s
         /\ n = 1 /\ s # <<>> => SubSeq(s, n + 1, Len(s)) = Tail(s)
<1>1. SubSeq(s, 1, Len(s)) = s
  BY SubSeqFull
<1>2. s # <<>> => SubSeq(s, 2, Len(s)) = Tail(s)
  BY TailIsSubSeq
<1>3. (n = 0 => n + 1 = 1) /\ (n = 1 => n + 1 = 2)
  OBVIOUS
<1> QED BY <1>1, <1>2, <1>3

\* The elements from the first one that satisfies a set, of a list of one and of none
LEMMA FromOne ==
  ASSUME NEW r \in Reqs, NEW T \in SUBSET Reqs
  PROVE  /\ From(<<>>, T) = <<>>
         /\ From(<<r>>, T) = IF r \in T THEN <<r>> ELSE <<>>
<1>1. From(<<>>, T) = <<>>
  <2>1. {i \in 1 .. Len(<<>>) : <<>>[i] \in T} = {}
    OBVIOUS
  <2> QED BY <2>1 DEF From
<1>2. CASE r \in T
  <2>1. {i \in 1 .. Len(<<r>>) : <<r>>[i] \in T} = {1}
    BY <1>2
  <2>2. (CHOOSE i \in {1} : \A j \in {1} : i <= j) = 1
    OBVIOUS
  <2>3. From(<<r>>, T) = SubSeq(<<r>>, 1, Len(<<r>>))
    BY <2>1, <2>2 DEF From
  <2>4. <<r>> \in Seq(Reqs)
    OBVIOUS
  <2>5. From(<<r>>, T) = SubSeq(<<r>>, 0 + 1, Len(<<r>>))
    BY <2>3
  <2>6. SubSeq(<<r>>, 0 + 1, Len(<<r>>)) = <<r>>
    BY <2>4, RestOf
  <2> QED BY <1>1, <1>2, <2>5, <2>6
<1>3. CASE r \notin T
  <2>1. {i \in 1 .. Len(<<r>>) : <<r>>[i] \in T} = {}
    BY <1>3
  <2> QED BY <1>3, <2>1 DEF From
<1> QED BY <1>1, <1>2, <1>3

\* The request in the hardware is the one to be applied again.
AppliedAgain(r) ==
  /\ req[r].report /\ req' = req
  /\ list' = [pending |-> <<r>> \o list.pending, wait |-> <<>>, active |-> <<>>]
  /\ \/ crm' = [crm EXCEPT !.back = r] /\ r \in crm.has /\ req[r].recover
     \/ crm' = [crm EXCEPT !.fatal = TRUE]

\* It is given up, and may be the next one with it.
GivenUp(r, kept, fatal) ==
  /\ ~req[r].report /\ req' = Settle(req, OnLists \ Elems(kept))
  /\ list' = [pending |-> kept, wait |-> <<>>, active |-> <<>>]
  /\ crm' = [crm EXCEPT !.fatal = fatal] /\ fatal \in BOOLEAN /\ (~fatal => ~crm.fatal)
  /\ kept = list.pending \/ (list.pending # <<>> /\ kept = Tail(list.pending) /\ fatal)

\* The hardware has only the last applied request.
LEMMA AtError ==
  ASSUME IspInv, Orderly, NEW recovery, HwError(recovery)
  PROVE  LET r == isp.last_applied IN
         /\ Running /\ list.active = <<r>> /\ list.wait = <<>> /\ holder = Nobody /\ ~isp.process_bubble
         /\ req[r].acked = 0 /\ (req[r].report => req[r].recover)
         /\ r \in Reqs /\ A = {r} /\ W = {} /\ P \subseteq Reqs /\ list.pending \in Seq(Reqs)
         /\ \A x \in P : r < x
<1>0. IspType /\ OrderInv
  BY DEF IspInv
<1>1. HwErrs = "quiet"
  BY IspAssumption DEF HwError, Orderly
<1>2. OneInHw /\ Running
  BY <1>1 DEF HwError
<1> PICK r : r = isp.last_applied
  OBVIOUS
<1>3. /\ list.active = <<r>> /\ list.wait = <<>> /\ holder = Nobody /\ ~isp.process_bubble
      /\ req[r].acked = 0 /\ (req[r].report => req[r].recover)
  BY <1>2 DEF OneInHw
<1>4. A = {r}
  BY <1>3 DEF A, Elems
<1>5. r \in Reqs /\ W = {} /\ P \subseteq Reqs /\ list.pending \in Seq(Reqs) /\ \A x \in P : r < x
  BY <1>0, <1>3, <1>4, ListFacts DEF OrderInv, Before
<1> QED BY <1>2, <1>3, <1>4, <1>5

\* The error has one of the two outcomes.
LEMMA HwErrorIs ==
  ASSUME IspInv, Orderly, NEW recovery \in BOOLEAN, HwError(recovery)
  PROVE  AppliedAgain(isp.last_applied) \/ \E kept, fatal : GivenUp(isp.last_applied, kept, fatal)
<1> DEFINE reporting == {r \in Reqs : req[r].report}
           a == From(list.active, reporting)
           w == IF a # <<>> THEN list.wait ELSE From(list.wait, reporting)
           back == w \o a \o list.pending
           given == {i \in 1 .. Len(back) : /\ \A j \in 1 .. i : back[j] \notin reporting
                                            /\ \A j \in 1 .. i - 1 : back[j] < isp.last_applied}
           kept == SubSeq(back, Cardinality(given) + 1, Len(back))
           bubble == recovery /\ kept # <<>> /\ Head(kept) \in reporting
                     /\ \A i \in given : i = Cardinality(given) => back[i] < isp.last_applied
<1>0. IspType /\ OrderInv
  BY DEF IspInv
<1>1. /\ list' = [pending |-> kept, wait |-> <<>>, active |-> <<>>]
      /\ req' = Settle(req, OnLists \ Elems(kept))
      /\ crm' = IF bubble /\ isp.last_applied \in crm.has /\ req[isp.last_applied].recover
              THEN [crm EXCEPT !.back = isp.last_applied] ELSE [crm EXCEPT !.fatal = crm.fatal \/ ~bubble]
  BY DEF HwError
<1> PICK r : r = isp.last_applied
  OBVIOUS
<1>2. /\ Running /\ list.active = <<r>> /\ list.wait = <<>> /\ holder = Nobody /\ ~isp.process_bubble
      /\ r \in Reqs /\ A = {r} /\ W = {} /\ P \subseteq Reqs /\ list.pending \in Seq(Reqs)
      /\ \A x \in P : r < x
  BY AtError
<1>3. reporting \in SUBSET Reqs /\ crm \in CrmType
  BY <1>0 DEF IspType
<1>4. req[r].report <=> r \in reporting
  BY <1>2
<1>5. CASE req[r].report
  <2>1. a = <<r>> /\ w = <<>>
    BY <1>2, <1>3, <1>4, <1>5, FromOne
  <2>2. back = <<r>> \o list.pending /\ back \in Seq(Reqs)
    <3>1. <<r>> \in Seq(Reqs)
      BY <1>2
    <3>2. w \o a = <<r>>
      BY <2>1, <3>1, ConcatEmptySeq
    <3>3. <<r>> \o list.pending \in Seq(Reqs)
      BY <1>2, <3>1, ConcatProperties
    <3> QED BY <3>2, <3>3
  <2> HIDE DEF a, w
  <2>3. Len(back) \in Nat /\ Len(back) >= 1 /\ back[1] = r
    BY <1>2, <2>2
  <2> HIDE DEF back
  <2>4. given = {}
    BY <1>4, <1>5, <2>3
  <2>5. Cardinality(given) = 0
    BY <2>4, FS_EmptySet
  <2>6. kept = back
    <3> HIDE DEF given
    <3> QED BY <2>2, <2>5, RestOf
  <2>7. Elems(kept) = P \cup {r}
    <3>1. Increasing(list.pending) /\ \A x \in Elems(list.pending) : r < x
      BY <1>0, <1>2 DEF OrderInv, P
    <3> QED BY <1>2, <2>2, <2>6, <3>1, ConsList DEF P
  <2>8. req' = req
    <3>1. OnLists \ Elems(kept) = {}
      BY <1>2, <2>7 DEF OnLists, P, W, A
    <3>2. req = [x \in Reqs |-> req[x]]
      BY <1>0 DEF IspType
    <3>3. Settle(req, {}) = [x \in Reqs |-> req[x]]
      BY DEF Settle
    <3> HIDE DEF kept
    <3> QED BY <1>1, <3>1, <3>2, <3>3
  <2>9. \/ crm' = [crm EXCEPT !.back = r] /\ r \in crm.has /\ req[r].recover
        \/ crm' = [crm EXCEPT !.fatal = TRUE]
    <3>1. r \in crm.has /\ req[r].recover
      <4>1. req[r].recover
        BY <1>5, AtError
      <4>2. req[r].kind = "update"
        <5>1. r \in Taken /\ req[r] \in ReqType
          BY <1>0, <1>2 DEF IspInv, StateInv, IspType
        <5>2. req[r].kind # "init"
          BY <1>2, <4>1 DEF IspInv, IdInv
        <5> QED BY <5>1, <5>2 DEF Taken, ReqType
      <4>3. ~Flushing
        BY <1>2 DEF Flushing, Nobody
      <4> QED BY <1>2, <4>1, <4>2, <4>3 DEF IspInv, CrmInv
    <3>2. CASE bubble
      BY <1>1, <3>1, <3>2
    <3>3. CASE ~bubble
      <4> PICK b \in BOOLEAN : b = (crm.fatal \/ ~bubble)
        OBVIOUS
      <4>1. b = TRUE
        BY <3>3
      <4>2. crm' = [crm EXCEPT !.fatal = b]
        BY <1>1, <3>3
      <4> QED BY <4>1, <4>2
    <3> QED BY <3>2, <3>3
  <2> QED BY <1>1, <1>5, <2>2, <2>6, <2>8, <2>9 DEF AppliedAgain
<1>6. CASE ~req[r].report
  <2>1. a = <<>> /\ w = <<>>
    BY <1>2, <1>3, <1>4, <1>6, FromOne
  <2>2. back = list.pending
    <3>1. <<>> \in Seq(Reqs)
      OBVIOUS
    <3>2. w \o a = <<>>
      BY <2>1, <3>1, ConcatEmptySeq
    <3> QED BY <1>2, <3>2, ConcatEmptySeq
  <2> HIDE DEF a, w
  <2>3. /\ Len(list.pending) \in Nat
        /\ \A i \in 1 .. Len(list.pending) : list.pending[i] \in P /\ list.pending[i] \in Nat
    BY <1>2, ElemsOf, NoReqIs DEF P
  <2>4. \A i \in given : i = 1
    <3> SUFFICES ASSUME NEW i \in given, i # 1 PROVE FALSE
      OBVIOUS
    <3>1. i \in 1 .. Len(list.pending) /\ \A j \in 1 .. i - 1 : list.pending[j] < r
      BY <2>2
    <3>2. 1 \in 1 .. i - 1 /\ 1 \in 1 .. Len(list.pending)
      BY <2>3, <3>1
    <3>3. list.pending[1] < r /\ r < list.pending[1] /\ r \in Nat /\ list.pending[1] \in Nat
      BY <1>2, <2>3, <3>1, <3>2, NoReqIs
    <3> QED BY <3>3
  <2>5. given = {} \/ (given = {1} /\ 1 \in 1 .. Len(list.pending))
    BY <2>2, <2>4
  <2>6. PICK b \in BOOLEAN : b = (crm.fatal \/ ~bubble)
    OBVIOUS
  <2>7. crm' = [crm EXCEPT !.fatal = b]
    <3>1. ~req[r].recover
      <4>1. r \in Taken /\ req[r] \in ReqType
          BY <1>0, <1>2 DEF IspInv, StateInv, IspType
      <4>2. CASE req[r].kind = "init"
        BY <1>2, <4>2 DEF IspInv, IdInv
      <4>3. CASE req[r].kind = "update"
        BY <1>2, <1>6, <4>3 DEF IspInv, BubbleInv
      <4> QED BY <4>1, <4>2, <4>3 DEF Taken, ReqType
    <3> QED BY <1>1, <2>6, <3>1
  <2>8. CASE given = {}
    <3>1. Cardinality(given) = 0
      BY <2>8, FS_EmptySet
    <3>2. kept = list.pending
      <4> HIDE DEF given, back
      <4> QED BY <1>2, <2>2, <3>1, RestOf
    <3> HIDE DEF kept, given, bubble
    <3>3. GivenUp(r, kept, b)
      BY <1>1, <1>3, <1>6, <2>6, <2>7, <3>2 DEF GivenUp, CrmType
    <3> QED BY <3>3
  <2>9. CASE given = {1} /\ 1 \in 1 .. Len(list.pending)
    <3>1. Cardinality(given) = 1
      BY <2>9, FS_Singleton
    <3>2. list.pending # <<>>
      BY <1>2, <2>9
    <3>3. kept = Tail(list.pending)
      <4> HIDE DEF given, back
      <4> QED BY <1>2, <2>2, <3>1, <3>2, RestOf
    <3>4. ~bubble
      <4>1. 1 \in given /\ back[1] = list.pending[1]
        BY <2>2, <2>9
      <4>2. ~(list.pending[1] < r)
        BY <1>2, <2>3, <2>9, NoReqIs
      <4> QED BY <3>1, <4>1, <4>2
    <3> HIDE DEF kept, given, bubble
    <3>5. b = TRUE
      BY <2>6, <3>4
    <3>6. GivenUp(r, kept, b)
      BY <1>1, <1>3, <1>6, <2>6, <2>7, <3>2, <3>3, <3>5 DEF GivenUp, CrmType
    <3> QED BY <3>6
  <2> QED BY <2>5, <2>8, <2>9
<1> QED BY <1>5, <1>6

\* What both outcomes have in common: the context waits for the hardware to start again.
LEMMA AfterError ==
  ASSUME IspInv, Orderly, NEW recovery \in BOOLEAN, HwError(recovery), list' \in ListsType,
         list'.wait = <<>>, list'.active = <<>>,
         crm' \in CrmType, crm'.trigger = crm.trigger, crm'.has = crm.has, crm'.sent = crm.sent,
         req' \in [Reqs -> ReqType],
         \A x \in Reqs : req'[x].kind = req[x].kind /\ req'[x].recover = req[x].recover
                         /\ req'[x].out = req[x].out /\ req'[x].bubble = req[x].bubble
                         /\ req'[x].acked = req[x].acked,
         Increasing(list'.pending), P' \subseteq P \cup A,
         \A x \in P' : req[x].kind = "update"
  PROVE  /\ IspType' /\ OrderInv' /\ StateInv' /\ IdInv' /\ HolderInv' /\ HwInv' /\ SubInv' /\ BubbleInv'
         /\ W' = {} /\ A' = {} /\ Running' /\ ~isp'.process_bubble /\ isp'.last_applied = isp.last_applied
         /\ Taken' = Taken /\ ~Flushing' /\ ~Applying' /\ ~Latching' /\ \A x : ~Waits(x)'
<1>0. IspType /\ OrderInv
  BY DEF IspInv
<1>1. /\ Running /\ list.active = <<isp.last_applied>> /\ list.wait = <<>> /\ holder = Nobody
      /\ ~isp.process_bubble
  BY AtError
<1>2. /\ state' = state /\ holder' = holder /\ errs' = errs + 1
      /\ hw' = [IdleHw EXCEPT !.frame = TRUE, !.rup = TRUE]
      /\ isp' = [isp EXCEPT !.cnt = isp.cnt - Len(list.active) - Len(list.wait), !.sub = "HW_ERROR"]
  BY DEF HwError
<1>3. /\ isp' \in CtxType /\ isp'.cnt = 0 /\ isp'.sub = "HW_ERROR" /\ ~isp'.process_bubble
      /\ isp'.last_applied = isp.last_applied /\ isp'.last_flush = isp.last_flush
      /\ isp'.frame_cnt = isp.frame_cnt /\ ~(isp.frame_cnt > 0)
  <2>1. isp.cnt = 1 /\ Len(list.active) = 1 /\ Len(list.wait) = 0
    BY <1>1 DEF IspInv, SubInv
  <2>2. isp' = [isp EXCEPT !.cnt = 0, !.sub = "HW_ERROR"]
    BY <1>2, <2>1
  <2>3. isp \in CtxType /\ 0 \in Int /\ "HW_ERROR" \in Subs
    BY <1>0 DEF IspType, Subs
  <2>4. ~(isp.frame_cnt > 0)
    BY <1>1 DEF IspInv, BubbleInv
  <2> QED BY <1>1, <2>2, <2>3, <2>4 DEF CtxType
<1>4. /\ hw'.frame = TRUE /\ hw'.cur = NoReq /\ hw'.rup = TRUE /\ hw'.loaded = NoReq
      /\ \A p \in Ports : hw'.todo[p] = <<>>
      /\ hw' \in HwType
  BY <1>2, NoElems, NoReqIs DEF IdleHw, HwType
<1>5. W' = {} /\ A' = {}
  BY NoElems DEF W, A
<1>6. /\ Running' /\ Taken' = Taken /\ ~Flushing' /\ ~Applying' /\ ~Latching'
      /\ \A x : ~Waits(x)'
  BY <1>1, <1>2, <1>3, <1>5 DEF Running, Taken, Flushing, Applying, Latching, Waits, Nobody
<1>7. IspType'
  <2>1. errs' \in Nat /\ state' \in States /\ holder' \in HolderType
    BY <1>0, <1>2 DEF IspType
  <2> QED BY <1>3, <1>4, <2>1 DEF IspType
<1>8. OrderInv'
  <2>1. Len(list'.wait) = 0 /\ Len(list'.active) = 0 /\ Increasing(list'.active)
    BY NoElems
  <2> QED BY <1>5, <2>1 DEF OrderInv, Before
<1>9. StateInv'
  <2>1. StateInv /\ P \subseteq Reqs /\ A \subseteq Reqs /\ crm.has \subseteq Reqs
    BY <1>0, ListFacts DEF IspInv, IspType, CrmType
  <2>2. state' = "ACTIVATED"
    BY <1>1, <1>2 DEF Running
  <2>3. P' \cup W' \cup A' \subseteq Taken' /\ \A x \in P' : req'[x].kind = "update"
    BY <1>5, <1>6, <2>1 DEF StateInv
  <2>4. \A x \in crm'.has : req'[x].kind = "update"
    BY <2>1 DEF StateInv
  <2> QED BY <1>6, <2>2, <2>3, <2>4 DEF StateInv
<1>10. IdInv'
  <2>1. IdInv /\ crm.has \subseteq Reqs BY <1>0 DEF IspInv, IspType, CrmType
  <2>2. crm'.has \cup W' \cup A' = crm.has /\ P' \cup W' \cup A' \subseteq P \cup W \cup A
    BY <1>5
  <2>3. \A x, y \in crm'.has \cup W' \cup A' :
       req'[x].kind = "update" /\ req'[y].kind = "update" => req'[x].recover = req'[y].recover
    BY <2>1, <2>2 DEF IdInv
  <2>4. /\ state' # "FLUSHED" => \A x \in P' \cup W' \cup A' : x > isp'.last_flush
        /\ isp'.last_flush \in Taken' \cup {NoReq}
        /\ \A x \in Reqs : req'[x].kind = "init" => ~req'[x].recover
    BY <1>2, <1>3, <1>6, <2>1, <2>2 DEF IdInv
  <2> QED BY <2>3, <2>4 DEF IdInv
<1>11. HolderInv'
  BY <1>1, <1>2, <1>6 DEF HolderInv
<1>12. HwInv'
  <2>1. \A p \in Ports : Elems(hw'.todo[p]) = {} /\ Increasing(hw'.todo[p])
    BY <1>4, NoElems
  <2> QED BY <1>3, <1>4, <1>6, <2>1 DEF HwInv
<1>13. SubInv'
  <2>1. Len(list'.active) = 0
    BY NoElems
  <2> QED BY <1>3, <1>4, <1>6, <2>1 DEF SubInv
<1>14. BubbleInv'
  <2>1. isp'.last_applied \in Taken'
    BY <1>1, <1>3, <1>6 DEF IspInv, BubbleInv
  <2> QED BY <1>3, <1>5, <2>1 DEF BubbleInv
<1> QED BY <1>3, <1>5, <1>6, <1>7, <1>8, <1>9, <1>10, <1>11, <1>12, <1>13, <1>14

\* The request is pending again, and the manager goes back to it.
LEMMA AppliedAgainStep ==
  ASSUME IspInv, Orderly, NEW recovery \in BOOLEAN, HwError(recovery), AppliedAgain(isp.last_applied)
  PROVE  IspInv'
<1>0. IspType /\ OrderInv
  BY DEF IspInv
<1> PICK r : r = isp.last_applied
  OBVIOUS
<1>1. /\ Running /\ list.active = <<r>> /\ list.wait = <<>> /\ holder = Nobody /\ ~isp.process_bubble
      /\ req[r].acked = 0 /\ req[r].report /\ req[r].recover
      /\ r \in Reqs /\ A = {r} /\ W = {} /\ P \subseteq Reqs /\ list.pending \in Seq(Reqs)
      /\ (\A x \in P : r < x) /\ r \in Nat /\ r \notin P
  <2>1. req[r].report
    BY DEF AppliedAgain
  <2>2. r \in Reqs /\ r \in Nat /\ (\A x \in P : r < x)
    BY AtError, NoReqIs
  <2>3. r \notin P
    BY <2>2
  <2> QED BY <2>1, <2>2, <2>3, AtError
<1>2. /\ req' = req
      /\ list' = [pending |-> <<r>> \o list.pending, wait |-> <<>>, active |-> <<>>]
      /\ \/ crm' = [crm EXCEPT !.back = r]
         \/ crm' = [crm EXCEPT !.fatal = TRUE]
  BY DEF AppliedAgain
<1>3. /\ list' \in ListsType /\ list'.wait = <<>> /\ list'.active = <<>> /\ Increasing(list'.pending)
      /\ P' = P \cup {r} /\ list'.pending # <<>> /\ Head(list'.pending) = r
  <2>1. Increasing(list.pending) /\ P = Elems(list.pending)
    BY <1>0 DEF OrderInv, P
  <2>2. /\ <<r>> \o list.pending \in Seq(Reqs) /\ Increasing(<<r>> \o list.pending)
        /\ Elems(<<r>> \o list.pending) = P \cup {r} /\ <<r>> \o list.pending # <<>>
        /\ Head(<<r>> \o list.pending) = r
    BY <1>1, <2>1, ConsList
  <2>3. list'.pending = <<r>> \o list.pending /\ list'.wait = <<>> /\ list'.active = <<>>
    BY <1>2
  <2>4. list' \in ListsType
    BY <1>2, <2>2, NoElems DEF ListsType
  <2> QED BY <2>2, <2>3, <2>4 DEF P
<1>4. /\ crm' \in CrmType /\ crm'.trigger = crm.trigger /\ crm'.has = crm.has /\ crm'.sent = crm.sent
      /\ (crm'.back = r /\ crm'.fatal = crm.fatal) \/ (crm'.back = crm.back /\ crm'.fatal = TRUE)
  <2>1. crm \in CrmType /\ r \in Nat /\ TRUE \in BOOLEAN
    BY <1>0, <1>1 DEF IspType
  <2> QED BY <1>2, <2>1 DEF CrmType
<1>5. req[r].kind = "update" /\ r \in crm.has /\ ~Flushing /\ crm.sent = r /\ crm.back = NoReq
  <2>1. r \in Taken /\ req[r] \in ReqType
    BY <1>0, <1>1 DEF IspInv, StateInv, IspType
  <2>2. req[r].kind = "update"
    BY <1>1, <2>1 DEF IspInv, IdInv, Taken, ReqType
  <2>3. ~Flushing
    BY <1>1 DEF Flushing, Nobody
  <2>4. crm.back = NoReq
    <3>1. crm.back # NoReq => list.pending # <<>> /\ Head(list.pending) = crm.back /\ crm.back = r
      BY <1>1, <2>3 DEF IspInv, CrmInv
    <3>2. list.pending # <<>> => Head(list.pending) \in P
      BY <1>0, ListFacts
    <3> QED BY <1>1, <3>1, <3>2
  <2>5. r \in crm.has /\ crm.sent <= r /\ r <= crm.sent /\ crm.sent \in Nat
    BY <1>0, <1>1, <2>2, <2>3, <2>4 DEF IspInv, CrmInv, IspType, CrmType
  <2> QED BY <1>1, <2>2, <2>3, <2>4, <2>5
<1>6. \A x \in P' : req[x].kind = "update"
  BY <1>1, <1>3, <1>5 DEF IspInv, StateInv, Running
<1>7. /\ IspType' /\ OrderInv' /\ StateInv' /\ IdInv' /\ HolderInv' /\ HwInv' /\ SubInv' /\ BubbleInv'
      /\ W' = {} /\ A' = {} /\ Running' /\ ~isp'.process_bubble /\ isp'.last_applied = r
      /\ Taken' = Taken /\ ~Flushing' /\ ~Applying' /\ ~Latching' /\ \A x : ~Waits(x)'
  <2>1. req' \in [Reqs -> ReqType] /\ P' \subseteq P \cup A
    BY <1>0, <1>1, <1>2, <1>3 DEF IspType
  <2> QED BY <1>2, <1>3, <1>4, <1>6, <2>1, AfterError
<1>8. ReqInv'
  <2>1. ReqInv BY DEF IspInv
  <2>2. req[r].acked = 0 /\ req[r].left = req[r].out /\ ~req[r].bubble
    <3>1. ~Bubbled(r)
      BY <1>1 DEF IspInv, BubbleInv
    <3>2. ~req[r].bubble
      BY <1>1, <3>1 DEF Bubbled
    <3>3. req[r].acked + Cardinality(Due(r)) = Cardinality(req[r].out) /\ req[r].left = Due(r)
      BY <1>1, <2>1, <3>1 DEF ReqInv
    <3>4. req[r].out \in SUBSET Ports /\ Due(r) \in SUBSET req[r].out
      BY <1>0, <1>1 DEF IspType, ReqType, Due
    <3>5. Due(r) = req[r].out
      <4> PICK D, O : D = Due(r) /\ O = req[r].out
        OBVIOUS
      <4>1. /\ Cardinality(O) \in Nat /\ Cardinality(D) \in Nat /\ Cardinality(O \ D) \in Nat
            /\ Cardinality(O \ D) = Cardinality(O) - Cardinality(D)
            /\ Cardinality(O \ D) = 0 <=> O \ D = {}
        BY <3>4, CountDown
      <4>2. Cardinality(D) = Cardinality(O)
        BY <1>1, <3>3, <4>1
      <4>3. O \ D = {}
        BY <4>1, <4>2
      <4> QED BY <3>4, <4>3
    <3> QED BY <1>1, <3>2, <3>3, <3>5
  <2>3. \A x \in P' \cup W' : req[x].acked = 0 /\ req[x].left = req[x].out /\ ~req[x].bubble
    BY <1>3, <1>7, <2>1, <2>2 DEF ReqInv
  <2>4. \A x \in Taken : x \notin P' \cup W' \cup A' => req[x].left = {}
    BY <1>1, <1>3, <1>7, <2>1 DEF ReqInv
  <2>5. \A x \in Reqs : req[x].left \subseteq req[x].out /\ req[x].acked <= Cardinality(req[x].out)
    BY <2>1 DEF ReqInv
  <2> QED BY <1>2, <1>7, <2>3, <2>4, <2>5 DEF ReqInv
<1>9. CrmInv'
  <2>1. P' \subseteq crm.has
    BY <1>1, <1>3, <1>5 DEF IspInv, CrmInv
  <2>2. /\ crm'.has = crm.has /\ crm'.sent = r /\ (crm'.back = r \/ crm'.back = NoReq) /\ r <= r
    BY <1>1, <1>4, <1>5
  <2>3. /\ crm'.sent <= isp'.last_applied
        /\ crm'.back # NoReq => crm'.back = isp'.last_applied /\ crm'.sent = crm'.back
        /\ crm'.back # NoReq => list'.pending # <<>> /\ Head(list'.pending) = crm'.back
    BY <1>3, <1>7, <2>2
  <2> QED BY <1>7, <2>1, <2>2, <2>3 DEF CrmInv
<1>10. AheadInv'
  <2> SUFFICES ASSUME ~crm'.fatal PROVE AheadInv'
    BY DEF AheadInv
  <2>1. crm'.back = r /\ ~crm.fatal /\ Ahead' = Ahead
    BY <1>4 DEF Ahead
  <2>2. Ahead = P
    BY <1>1, <1>5, <2>1 DEF IspInv, AheadInv
  <2>3. (P' \ {r}) = P /\ r # NoReq
    BY <1>1, <1>3, NoReqIs
  <2> QED BY <1>7, <2>1, <2>2, <2>3 DEF AheadInv
<1> QED BY <1>7, <1>8, <1>9, <1>10 DEF IspInv

\* The fences of what was given up are signaled.
LEMMA GivenUpStep ==
  ASSUME IspInv, Orderly, NEW recovery \in BOOLEAN, HwError(recovery),
         NEW kept, NEW fatal, GivenUp(isp.last_applied, kept, fatal)
  PROVE  IspInv'
<1>0. IspType /\ OrderInv
  BY DEF IspInv
<1> PICK r : r = isp.last_applied
  OBVIOUS
<1>1. /\ Running /\ list.active = <<r>> /\ list.wait = <<>> /\ holder = Nobody /\ ~isp.process_bubble
      /\ r \in Reqs /\ A = {r} /\ W = {} /\ P \subseteq Reqs /\ list.pending \in Seq(Reqs)
      /\ (\A x \in P : r < x) /\ r \in Nat /\ r \notin P
  <2>1. r \in Reqs /\ r \in Nat /\ (\A x \in P : r < x)
    BY AtError, NoReqIs
  <2>2. r \notin P
    BY <2>1
  <2> QED BY <2>1, <2>2, AtError
<1>2. /\ req' = Settle(req, OnLists \ Elems(kept))
      /\ list' = [pending |-> kept, wait |-> <<>>, active |-> <<>>]
      /\ crm' = [crm EXCEPT !.fatal = fatal] /\ fatal \in BOOLEAN /\ (~fatal => ~crm.fatal)
      /\ kept = list.pending \/ (list.pending # <<>> /\ kept = Tail(list.pending) /\ fatal)
  BY DEF GivenUp
<1>3. kept \in Seq(Reqs) /\ Increasing(kept) /\ Elems(kept) \subseteq P /\ (~fatal => Elems(kept) = P)
  <2>1. Increasing(list.pending) /\ P = Elems(list.pending)
    BY <1>0 DEF OrderInv, P
  <2>2. CASE kept = list.pending
    BY <1>1, <2>1, <2>2
  <2>3. CASE list.pending # <<>> /\ kept = Tail(list.pending) /\ fatal
    BY <1>1, <2>1, <2>3, HeadTail
  <2> QED BY <1>2, <2>2, <2>3
<1>4. /\ list' \in ListsType /\ list'.wait = <<>> /\ list'.active = <<>> /\ Increasing(list'.pending)
      /\ P' \subseteq P /\ (~fatal => P' = P) /\ P' = Elems(kept)
  <2>1. list'.pending = kept /\ list'.wait = <<>> /\ list'.active = <<>>
    BY <1>2
  <2>2. list' \in ListsType
    BY <1>2, <1>3, NoElems DEF ListsType
  <2> QED BY <1>3, <2>1, <2>2 DEF P
<1>5. /\ crm' \in CrmType /\ crm'.trigger = crm.trigger /\ crm'.has = crm.has /\ crm'.sent = crm.sent
      /\ crm'.back = crm.back /\ crm'.fatal = fatal
  <2>1. crm \in CrmType
    BY <1>0 DEF IspType
  <2> QED BY <1>2, <2>1 DEF CrmType
<1>6. /\ req' \in [Reqs -> ReqType]
      /\ \A x \in Reqs :
           /\ req'[x].left = IF x \in OnLists \ Elems(kept) THEN {} ELSE req[x].left
           /\ req'[x].kind = req[x].kind /\ req'[x].recover = req[x].recover
           /\ req'[x].out = req[x].out /\ req'[x].bubble = req[x].bubble
           /\ req'[x].acked = req[x].acked
  <2>1. req \in [Reqs -> ReqType]
    BY <1>0 DEF IspType
  <2> QED BY <1>2, <2>1, SettleIs
<1>7. /\ IspType' /\ OrderInv' /\ StateInv' /\ IdInv' /\ HolderInv' /\ HwInv' /\ SubInv' /\ BubbleInv'
      /\ W' = {} /\ A' = {} /\ Running' /\ ~isp'.process_bubble /\ isp'.last_applied = r
      /\ Taken' = Taken /\ ~Flushing' /\ ~Applying' /\ ~Latching' /\ \A x : ~Waits(x)'
  <2>1. \A x \in P' : req[x].kind = "update"
    BY <1>1, <1>4 DEF IspInv, StateInv, Running
  <2>2. P' \subseteq P \cup A
    BY <1>4
  <2> QED BY <1>4, <1>5, <1>6, <2>1, <2>2, AfterError
<1>8. crm.back = NoReq /\ ~Flushing
  <2>1. ~Flushing
    BY <1>1 DEF Flushing, Nobody
  <2>2. crm.back # NoReq => list.pending # <<>> /\ Head(list.pending) = crm.back /\ crm.back = r
    BY <1>1, <2>1 DEF IspInv, CrmInv
  <2>3. list.pending # <<>> => Head(list.pending) \in P
    BY <1>0, ListFacts
  <2> QED BY <1>1, <2>1, <2>2, <2>3
<1>9. ReqInv'
  <2>1. ReqInv BY DEF IspInv
  <2>2. OnLists = P \cup A /\ P' = Elems(kept)
    BY <1>1, <1>4 DEF OnLists, P, W, A
  <2>3. \A x \in P' : req'[x].acked = 0 /\ req'[x].left = req'[x].out /\ ~req'[x].bubble
    BY <1>1, <1>4, <1>6, <2>1, <2>2 DEF ReqInv
  <2>4. \A x \in Taken : x \notin P' => req'[x].left = {}
    BY <1>1, <1>6, <2>1, <2>2 DEF ReqInv, Taken
  <2>5. \A x \in Reqs : req'[x].left \subseteq req'[x].out /\ req'[x].acked <= Cardinality(req'[x].out)
    BY <1>6, <2>1 DEF ReqInv
  <2> QED BY <1>7, <2>3, <2>4, <2>5 DEF ReqInv
<1>10. CrmInv'
  <2>1. P' \subseteq crm'.has /\ crm'.sent <= isp'.last_applied /\ crm'.back = NoReq
    BY <1>1, <1>4, <1>5, <1>7, <1>8 DEF IspInv, CrmInv
  <2> QED BY <1>7, <2>1 DEF CrmInv
<1>11. AheadInv'
  <2> SUFFICES ASSUME ~fatal PROVE AheadInv'
    BY <1>5 DEF AheadInv
  <2>1. Ahead' = Ahead /\ P' = P /\ ~crm.fatal
    BY <1>2, <1>4, <1>5 DEF Ahead
  <2>2. Ahead = P
    BY <1>1, <1>8, <2>1 DEF IspInv, AheadInv
  <2> QED BY <1>5, <1>7, <1>8, <2>1, <2>2 DEF AheadInv
<1> QED BY <1>7, <1>9, <1>10, <1>11 DEF IspInv

\* A hardware error with one request in the hardware keeps the invariant.
LEMMA HwErrorStep ==
  ASSUME IspInv, Orderly, NEW recovery \in BOOLEAN, HwError(recovery)
  PROVE  IspInv'
BY HwErrorIs, AppliedAgainStep, GivenUpStep

\* A stuttering step keeps the invariant.
LEMMA Stutter == ASSUME IspInv, UNCHANGED vars PROVE IspInv'
<1>1. UNCHANGED <<state, isp, list, req, holder, hw, crm, errs>>
  BY DEF vars
<1>2. /\ P' = P /\ W' = W /\ A' = A /\ Running' = Running /\ Applying' = Applying /\ Flushing' = Flushing
      /\ Latching' = Latching /\ Ahead' = Ahead /\ Taken' = Taken
      /\ \A r : Waits(r)' = Waits(r) /\ Due(r)' = Due(r) /\ Bubbled(r)' = Bubbled(r)
  BY <1>1 DEF P, W, A, Running, Applying, Flushing, Latching, Ahead, Taken, Waits, Due, Bubbled
<1>3. IspType' BY <1>1 DEF IspInv, IspType
<1>4. OrderInv' BY <1>1, <1>2 DEF IspInv, OrderInv
<1>5. StateInv' BY <1>1, <1>2 DEF IspInv, StateInv
<1>6. IdInv' BY <1>1, <1>2 DEF IspInv, IdInv
<1>7. HolderInv' BY <1>1, <1>2 DEF IspInv, HolderInv
<1>8. HwInv' BY <1>1, <1>2 DEF IspInv, HwInv
<1>9. SubInv' BY <1>1, <1>2 DEF IspInv, SubInv
<1>10. BubbleInv' BY <1>1, <1>2 DEF IspInv, BubbleInv
<1>11. ReqInv' BY <1>1, <1>2 DEF IspInv, ReqInv
<1>12. CrmInv' BY <1>1, <1>2 DEF IspInv, CrmInv
<1>13. AheadInv' BY <1>1, <1>2 DEF IspInv, AheadInv
<1> QED BY <1>3, <1>4, <1>5, <1>6, <1>7, <1>8, <1>9, <1>10, <1>11, <1>12, <1>13 DEF IspInv

-----------------------------------------------------------------------------
(* The theorems                                                               *)

\* Every step keeps the invariant.
LEMMA IspStep == ASSUME IspInv, Orderly, [Next]_vars PROVE IspInv'
<1>0. req \in [Reqs -> ReqType]
  BY DEF IspInv, IspType
<1>1. CASE Userspace
  <2>1. ASSUME NEW r \in Reqs, NEW out \in SUBSET Ports,
               NEW stale \in {FALSE} \cup {req[x].report : x \in Taken \ OnLists}
        PROVE  stale \in BOOLEAN
    BY <1>0 DEF ReqType, Taken
  <2>2. ASSUME NEW r \in Reqs, NEW out \in SUBSET Ports,
               NEW stale \in {FALSE} \cup {req[x].report : x \in Taken \ OnLists},
               ConfigInit(r, out, stale)
        PROVE  IspInv'
    BY <2>1, <2>2, ConfigInitStep
  <2>3. ASSUME NEW r \in Reqs, NEW out \in SUBSET Ports,
               NEW stale \in {FALSE} \cup {req[x].report : x \in Taken \ OnLists},
               NEW recover \in BOOLEAN, ConfigUpdate(r, out, stale, recover)
        PROVE  IspInv'
    BY <2>1, <2>3, ConfigUpdateStep
  <2> QED BY <1>1, <2>2, <2>3, StartDevStep, StartFailsStep, StopStep DEF Userspace
<1>2. CASE Manager
  <2>1. CASE ApplyBegin \/ ApplyRefused \/ ApplyConfig \/ ApplyEnd
    BY <2>1, ApplyBeginStep, RefusedStep, ApplyConfigStep, ApplyEndStep
  <2>2. CASE FlushBegin \/ FlushEnd \/ GoBack
    BY <2>2, FlushBeginStep, FlushEndStep, GoBackStep
  <2>3. ASSUME NEW r \in Reqs, Cancel(r) PROVE IspInv'
    BY <2>3, CancelStep
  <2> QED BY <1>2, <2>1, <2>2, <2>3 DEF Manager
<1>3. CASE Interrupt
  BY <1>3, SofStep, RegUpdStep, EpochStep, BufDoneStep DEF Interrupt
<1>4. CASE \E recovery \in BOOLEAN : HwError(recovery)
  BY <1>4, HwErrorStep
<1>5. CASE UNCHANGED vars
  BY <1>5, Stutter
<1> QED BY <1>1, <1>2, <1>3, <1>4, <1>5 DEF Next

\* IspInv holds in every state: the lists, the substate, the hardware and the request manager
\* agree, for any number of ports, requests and errors.
THEOREM IspInvariant == ASSUME Orderly PROVE Spec => []IspInv
<1>1. IspInv /\ [Next]_vars => IspInv'
  BY IspStep
<1> QED BY <1>1, Start, PTL DEF Spec

\* TypeOK: the states, the substates, the lists and the fences of the requests are what the
\* code's declarations allow, with never more acknowledgements than buffers (num_acked).
THEOREM TypeCorrect == ASSUME Orderly PROVE Spec => []TypeOK
<1>1. IspInv => TypeOK
  <2> SUFFICES ASSUME IspInv PROVE TypeOK
    OBVIOUS
  <2>1. IspType /\ ReqInv
    BY DEF IspInv
  <2>2. /\ state \in {"ACQUIRED", "READY", "ACTIVATED", "FLUSHED"}
        /\ isp.sub \in {"SOF", "APPLIED", "EPOCH", "BUBBLE", "BUBBLE_APPLIED", "HW_ERROR", "HALT"}
    BY <2>1 DEF IspType, States, CtxType, Subs
  <2>3. ASSUME NEW r \in Reqs
        PROVE  req[r].left \subseteq req[r].out /\ req[r].acked \in 0 .. Cardinality(req[r].out)
    <3>1. req[r].acked \in Nat /\ req[r].out \in SUBSET Ports
      BY <2>1 DEF IspType, ReqType
    <3>2. Cardinality(req[r].out) \in Nat
      BY <3>1, IspAssumption, FS_Subset, FS_CardinalityType
    <3> QED BY <2>1, <3>1, <3>2 DEF ReqInv
  <2>4. ASSUME NEW l \in Lists PROVE list[l] \in Seq(Reqs)
    BY <2>1 DEF IspType, ListsType, Lists
  <2> QED BY <2>2, <2>3, <2>4 DEF TypeOK
<1> QED BY <1>1, IspInvariant, PTL

\* Where an element of a list is
LEMMA PlaceOf ==
  ASSUME NEW s \in Seq(Reqs), Increasing(s), NEW r
  PROVE  /\ r \notin Elems(s) => {i \in 1 .. Len(s) : s[i] = r} = {}
         /\ r \in Elems(s) => \E i \in 1 .. Len(s) : {j \in 1 .. Len(s) : s[j] = r} = {i}
<1>1. r \notin Elems(s) => {i \in 1 .. Len(s) : s[i] = r} = {}
  BY DEF Elems
<1>2. ASSUME r \in Elems(s)
      PROVE  \E i \in 1 .. Len(s) : {j \in 1 .. Len(s) : s[j] = r} = {i}
  <2>1. PICK i \in 1 .. Len(s) : s[i] = r
    BY <1>2 DEF Elems
  <2>2. ASSUME NEW j \in 1 .. Len(s), s[j] = r PROVE j = i
    <3>1. Len(s) \in Nat /\ r \in Nat
      BY <2>1, ElemsOf, NoReqIs
    <3>2. ~(i < j) /\ ~(j < i)
      BY <2>1, <2>2, <3>1 DEF Increasing
    <3> QED BY <3>1, <3>2
  <2> QED BY <2>1, <2>2
<1> QED BY <1>1, <1>2

\* ListsExact: whatever the order of interrupts, applies and flushes, a request that was accepted
\* is on exactly one of the three lists, once, or all its fences are signaled; and active_req_cnt
\* is the length of the active list, at most 2.
THEOREM ListedOnce == ASSUME Orderly PROVE Spec => []ListsExact
<1>1. IspInv => ListsExact
  <2> SUFFICES ASSUME IspInv PROVE ListsExact
    OBVIOUS
  <2>1. IspType /\ OrderInv /\ ReqInv /\ SubInv
    BY DEF IspInv
  <2>2. /\ list.pending \in Seq(Reqs) /\ list.wait \in Seq(Reqs) /\ list.active \in Seq(Reqs)
        /\ \A x \in P : x \notin W /\ x \notin A
        /\ \A x \in W : x \notin A
    BY <2>1, ListFacts
  <2>3. Increasing(list.pending) /\ Increasing(list.wait) /\ Increasing(list.active)
    BY <2>1, <2>2, NoElems, SingleList DEF OrderInv
  <2>4. Running => isp.cnt = Len(list.active) /\ isp.cnt <= 2
    BY <2>1 DEF SubInv, OrderInv
  <2>5. ASSUME NEW r \in Taken
        PROVE  LET places == UNION {{l} \X {i \in 1 .. Len(list[l]) : list[l][i] = r} : l \in Lists}
               IN Cardinality(places) = 1 \/ (places = {} /\ req[r].left = {})
    <3> DEFINE At(s) == {i \in 1 .. Len(s) : s[i] = r}
    <3>1. UNION {{l} \X {i \in 1 .. Len(list[l]) : list[l][i] = r} : l \in Lists}
            = ({"pending"} \X At(list.pending)) \cup ({"wait"} \X At(list.wait)) \cup ({"active"} \X At(list.active))
      <4> DEFINE F(l) == {l} \X {i \in 1 .. Len(list[l]) : list[l][i] = r}
      <4>1. /\ F("pending") = {"pending"} \X At(list.pending) /\ F("wait") = {"wait"} \X At(list.wait)
            /\ F("active") = {"active"} \X At(list.active)
        OBVIOUS
      <4> HIDE DEF F, At
      <4>2. UNION {F(l) : l \in Lists} = F("pending") \cup F("wait") \cup F("active")
        BY DEF Lists
      <4>3. UNION {F(l) : l \in Lists}
              = ({"pending"} \X At(list.pending)) \cup ({"wait"} \X At(list.wait)) \cup ({"active"} \X At(list.active))
        BY <4>1, <4>2
      <4> QED BY <4>3 DEF F
    <3>2. /\ r \notin P => At(list.pending) = {}
          /\ r \in P => \E i : At(list.pending) = {i}
      BY <2>2, <2>3, PlaceOf DEF P
    <3>3. /\ r \notin W => At(list.wait) = {}
          /\ r \in W => \E i : At(list.wait) = {i}
      BY <2>2, <2>3, PlaceOf DEF W
    <3>4. /\ r \notin A => At(list.active) = {}
          /\ r \in A => \E i : At(list.active) = {i}
      BY <2>2, <2>3, PlaceOf DEF A
    <3>5. \A i, l : {l} \X {i} = {<<l, i>>} /\ {l} \X {} = {}
      OBVIOUS
    <3> PICK places : places = ({"pending"} \X At(list.pending))
                                 \cup ({"wait"} \X At(list.wait)) \cup ({"active"} \X At(list.active))
      OBVIOUS
    <3> HIDE DEF At
    <3>6. CASE r \in P \cup W \cup A
      <4>1. \E z : places = {z}
        <5>1. CASE r \in P
          <6>1. PICK i : At(list.pending) = {i}
            BY <3>2, <5>1
          <6>2. At(list.wait) = {} /\ At(list.active) = {}
            BY <2>2, <3>3, <3>4, <5>1
          <6>3. places = {<<"pending", i>>}
            BY <3>5, <6>1, <6>2
          <6> QED BY <6>3
        <5>2. CASE r \in W
          <6>1. PICK i : At(list.wait) = {i}
            BY <3>3, <5>2
          <6>2. At(list.pending) = {} /\ At(list.active) = {}
            BY <2>2, <3>2, <3>4, <5>2
          <6>3. places = {<<"wait", i>>}
            BY <3>5, <6>1, <6>2
          <6> QED BY <6>3
        <5>3. CASE r \in A
          <6>1. PICK i : At(list.active) = {i}
            BY <3>4, <5>3
          <6>2. At(list.pending) = {} /\ At(list.wait) = {}
            BY <2>2, <3>2, <3>3, <5>3
          <6>3. places = {<<"active", i>>}
            BY <3>5, <6>1, <6>2
          <6> QED BY <6>3
        <5> QED BY <3>6, <5>1, <5>2, <5>3
      <4>2. Cardinality(places) = 1
        BY <4>1, FS_Singleton
      <4> QED BY <3>1, <4>2
    <3>7. CASE r \notin P \cup W \cup A
      <4>1. places = {}
        BY <3>2, <3>3, <3>4, <3>5, <3>7
      <4>2. req[r].left = {}
        BY <2>1, <3>7 DEF ReqInv
      <4> QED BY <3>1, <4>1, <4>2
    <3> QED BY <3>6, <3>7
  <2> QED BY <2>4, <2>5 DEF ListsExact
<1> QED BY <1>1, IspInvariant, PTL

\* AskedIsHead: in no interleaving do the queue of the request manager and the pending list of
\* the context come apart, but while a bubble is processed.
THEOREM AskedForHead == ASSUME Orderly PROVE Spec => []AskedIsHead
<1>1. IspInv => AskedIsHead
  <2> SUFFICES ASSUME IspInv, Running, holder = Nobody, ~isp.process_bubble, crm.back = NoReq, ~crm.fatal,
                      list.pending # <<>>
               PROVE  Ahead # {} /\ Head(list.pending) = Asked
    BY DEF AskedIsHead
  <2>1. IspType /\ OrderInv
    BY DEF IspInv
  <2>2. ~Flushing
    BY DEF Flushing, Nobody
  <2>3. Ahead = P
    BY <2>2 DEF IspInv, AheadInv
  <2>4. Head(list.pending) \in P /\ (\A x \in P : Head(list.pending) <= x) /\ P \subseteq Reqs
    BY <2>1, ListFacts
  <2> PICK h : h = Head(list.pending)
    OBVIOUS
  <2>5. Asked \in P /\ \A x \in P : Asked <= x
    BY <2>1, <2>3, <2>4, AskedIs
  <2>6. h <= Asked /\ Asked <= h /\ h \in Nat /\ Asked \in Nat
    BY <2>4, <2>5, NoReqIs
  <2> QED BY <2>3, <2>4, <2>6
<1> QED BY <1>1, IspInvariant, PTL

\* PendingInOrder: with a hardware error only when one request is in the hardware, requests go
\* back to their places in the pending list; a run shows the order lost for errors at any time.
THEOREM PendingKeepsOrder == ASSUME Orderly PROVE Spec => []PendingInOrder
<1>1. IspInv => PendingInOrder
  BY DEF IspInv, OrderInv, Increasing, PendingInOrder
<1> QED BY <1>1, IspInvariant, PTL

\* The buffers of every request, that the hardware filled and that are signaled with success, stay.
SameBuffers == \A r \in Reqs : req'[r].ok = req[r].ok /\ req'[r].filled = req[r].filled

\* No buffer of a new request is signaled.
LEMMA NewBuffers ==
  ASSUME IspInv, SuccessIsFilled, NEW r \in Reqs, NEW kind, NEW out, NEW stale, NEW recover,
         req' = NewObj(r, kind, out, stale, recover)
  PROVE  SuccessIsFilled'
<1>1. req \in [Reqs -> ReqType]
  BY DEF IspInv, IspType
<1>2. \A x \in Reqs : x # r => req'[x] = req[x]
  BY <1>1 DEF NewObj
<1>3. req'[r].ok = {}
  BY <1>1 DEF NewObj, NewReq
<1> QED BY <1>2, <1>3 DEF SuccessIsFilled

\* A fence that is signaled with an error is not signaled with success.
LEMMA SettledBuffers ==
  ASSUME IspInv, NEW S, req' = Settle(req, S)
  PROVE  SameBuffers
BY SettleIs DEF SameBuffers, IspInv, IspType

\* An apply and an epoch signal nothing.
LEMMA OtherBuffers ==
  ASSUME IspInv, ApplyBegin \/ Epoch
  PROVE  SameBuffers
<1>1. req \in [Reqs -> ReqType]
  BY DEF IspInv, IspType
<1>2. ASSUME NEW r, NEW b, req' = [req EXCEPT ![r].report = b] PROVE SameBuffers
  BY <1>1, <1>2 DEF SameBuffers, ReqType
<1>3. ASSUME NEW r, NEW b, req' = [req EXCEPT ![r].bubble = b] PROVE SameBuffers
  BY <1>1, <1>3 DEF SameBuffers, ReqType
<1>4. ASSUME NEW r, NEW b, NEW n, req' = [req EXCEPT ![r].bubble = b, ![r].acked = n] PROVE SameBuffers
  BY <1>1, <1>4 DEF SameBuffers, ReqType
<1>5. ASSUME req' = req PROVE SameBuffers
  BY <1>5 DEF SameBuffers
<1>6. CASE ApplyBegin
  BY <1>2, <1>6 DEF ApplyBegin
<1>7. CASE Epoch
  <2>1. CASE NotifySof
    BY <1>4, <1>5, <2>1 DEF NotifySof
  <2>2. CASE Bubble
    BY <1>3, <2>2 DEF Bubble
  <2> QED BY <1>5, <1>7, <2>1, <2>2 DEF Epoch
<1> QED BY <1>6, <1>7

\* What BufDone signals with success the hardware has just filled.
LEMMA DoneBuffers ==
  ASSUME IspInv, SuccessIsFilled, NEW S \in (SUBSET Ports) \ {{}}, BufDone(S)
  PROVE  SuccessIsFilled'
<1> PICK d : req' = d.req /\ Completed(d, S)
  BY BufDoneIs
<1>1. \A x \in Reqs : /\ req'[x].filled = req[x].filled \cup Came(S, x)
                      /\ req'[x].ok \subseteq req[x].ok \cup Came(S, x)
  BY DEF Completed, Handling
<1> QED BY <1>1 DEF SuccessIsFilled

\* No step signals a buffer with success that is not filled.
LEMMA FilledStep ==
  ASSUME IspInv, SuccessIsFilled, [Next]_vars
  PROVE  SuccessIsFilled'
<1>1. SameBuffers => SuccessIsFilled'
  BY DEF SameBuffers, SuccessIsFilled
<1>2. req' = req => SuccessIsFilled'
  BY DEF SuccessIsFilled
<1>3. CASE Userspace
  <2>1. ASSUME NEW r \in Reqs, NEW out \in SUBSET Ports, NEW stale, ConfigInit(r, out, stale)
        PROVE  SuccessIsFilled'
    BY <2>1, NewBuffers DEF ConfigInit
  <2>2. ASSUME NEW r \in Reqs, NEW out \in SUBSET Ports, NEW stale, NEW recover,
               ConfigUpdate(r, out, stale, recover)
        PROVE  SuccessIsFilled'
    BY <2>2, NewBuffers DEF ConfigUpdate
  <2>3. CASE StartDev \/ StartFails
    BY <1>2, <2>3 DEF StartDev, StartFails
  <2>4. CASE StopDev
    BY <1>1, <2>4, SettledBuffers DEF StopDev
  <2> QED BY <1>3, <2>1, <2>2, <2>3, <2>4 DEF Userspace
<1>4. CASE Manager
  <2>1. CASE ApplyBegin
    BY <1>1, <2>1, OtherBuffers
  <2>2. CASE ApplyRefused \/ ApplyConfig \/ ApplyEnd \/ GoBack
    BY <1>2, <2>2 DEF ApplyRefused, ApplyConfig, ApplyEnd, GoBack
  <2>3. CASE FlushBegin \/ FlushEnd
    BY <1>1, <2>3, SettledBuffers DEF FlushBegin, FlushEnd
  <2>4. ASSUME NEW r \in Reqs, Cancel(r) PROVE SuccessIsFilled'
    BY <1>1, <1>2, <2>4, SettledBuffers DEF Cancel
  <2> QED BY <1>4, <2>1, <2>2, <2>3, <2>4 DEF Manager
<1>5. CASE Interrupt
  <2>1. CASE Sof \/ RegUpd
    BY <1>2, <2>1 DEF Sof, RegUpd
  <2>2. CASE Epoch
    BY <1>1, <2>2, OtherBuffers
  <2>3. ASSUME NEW S \in (SUBSET Ports) \ {{}}, BufDone(S) PROVE SuccessIsFilled'
    BY <2>3, DoneBuffers
  <2> QED BY <1>5, <2>1, <2>2, <2>3 DEF Interrupt
<1>6. ASSUME NEW recovery \in BOOLEAN, HwError(recovery) PROVE SuccessIsFilled'
  <2>1. \E S : req' = Settle(req, S)
    BY <1>6 DEF HwError
  <2> QED BY <1>1, <2>1, SettledBuffers
<1>7. CASE UNCHANGED vars
  BY <1>2, <1>7 DEF vars
<1> QED BY <1>3, <1>4, <1>5, <1>6, <1>7 DEF Next

\* SuccessIsFilled: no buffer is signaled as good that the hardware did not fill, however bubbles,
\* late buffers, flushes and errors interleave.
THEOREM SuccessOnlyIfFilled == ASSUME Orderly PROVE Spec => []SuccessIsFilled
<1>1. Init => SuccessIsFilled
  <2> SUFFICES ASSUME Init PROVE SuccessIsFilled
    OBVIOUS
  <2>1. \A r \in Reqs : req[r].ok = {}
    BY DEF Init, NewReq
  <2> QED BY <2>1 DEF SuccessIsFilled
<1>2. IspInv /\ SuccessIsFilled /\ [Next]_vars => SuccessIsFilled'
  BY FilledStep
<1> QED BY <1>1, <1>2, IspInvariant, PTL DEF Spec
=============================================================================
