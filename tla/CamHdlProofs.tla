---------------------------- MODULE CamHdlProofs ----------------------------
(***************************************************************************)
(* The handle table keeps its handles apart, for tables of any size and    *)
(* any number of owners: BitmapExact whatever the random byte returns,     *)
(* LookupFindsOwner and StaleHandleDead when it repeats no tag in use.     *)
(***************************************************************************)
EXTENDS CamHdl, TLAPS

\* A table without its bitmap has no active row, and no table no live handle.
NotReady ==
  /\ hdl_tbl = "bare" => \A i \in Rows : ~state[i]
  /\ hdl_tbl # "ready" => \A o \in Owners : held[o] # None => o \in revoked

\* Row and owner of a live handle point at each other.
RowOwned ==
  /\ hdl_tbl = "ready" => \A i \in Rows : state[i] =>
       /\ priv[i] \in Owners \ revoked
       /\ held[priv[i]] = hdl_value[i]
  /\ \A o \in Owners \ revoked : held[o] # None =>
       hdl_tbl = "ready" /\ state[held[o].idx] /\ hdl_value[held[o].idx] = held[o]
                         /\ priv[held[o].idx] = o

\* No two owners hold the same handle, and a revoked one is still held.
HeldDistinct ==
  /\ \A o \in revoked : held[o] # None
  /\ \A o, p \in Owners : held[o] = held[p] /\ held[o] # None => o = p

TableInv  == TypeOK /\ BitmapExact /\ NotReady
HandleInv == TableInv /\ RowOwned /\ HeldDistinct

-----------------------------------------------------------------------------

LEMMA TableInit == Init => TableInv
BY HdlAssumption, NoneAssumption DEF Init, TableInv, TypeOK, BitmapExact, NotReady

\* One step of any operation keeps the bitmap exact.
LEMMA TableStep == TableInv /\ [Next]_vars => TableInv'
<1> SUFFICES ASSUME TableInv, [Next]_vars PROVE TableInv'
  OBVIOUS
<1> USE HdlAssumption, NoneAssumption DEF TableInv, TypeOK, BitmapExact, NotReady
<1>1. CASE InitTable
  BY <1>1 DEF InitTable
<1>2. CASE InitBitmap
  BY <1>2 DEF InitBitmap
<1>3. CASE InitBitmapFails
  BY <1>3 DEF InitBitmapFails
<1>4. CASE Deinit
  BY <1>4 DEF Deinit
<1>5. CASE FreeHdls
  BY <1>5 DEF FreeHdls
<1>6. ASSUME NEW o \in Owners, Destroy(o) PROVE TableInv'
  <2> DEFINE i == held[o].idx
  <2>1. i \in Rows
    BY <1>6 DEF Destroy, Handle
  <2>2. CASE Valid(held[o])
    BY <1>6, <2>1, <2>2 DEF Destroy, Valid
  <2>3. CASE ~Valid(held[o])
    BY <1>6, <2>1, <2>3 DEF Destroy
  <2> QED BY <2>2, <2>3
<1>7. ASSUME NEW o \in Owners, NEW type \in Types, NEW tag \in Tags, Create(o, type, tag)
      PROVE TableInv'
  <2>1. PICK i \in 0 .. MaxHandles :
          LET h == [tag |-> tag, type |-> type, idx |-> i] IN
            /\ FreeIndex(i)
            /\ bitmap' = bitmap \cup {i}
            /\ hdl_value' = [hdl_value EXCEPT ![i] = h]
            /\ state' = [state EXCEPT ![i] = TRUE]
            /\ priv' = [priv EXCEPT ![i] = o]
            /\ held' = [held EXCEPT ![o] = h]
    BY <1>7 DEF Create
  <2> DEFINE h == [tag |-> tag, type |-> type, idx |-> i]
  <2>2. i \in Rows /\ h \in Handle
    BY <2>1 DEF FreeIndex, Rows, Handle
  <2>3. TypeOK'
    BY <1>7, <2>1, <2>2 DEF Create
  <2>4. BitmapExact'
    BY <1>7, <2>1, <2>2 DEF Create
  <2>5. NotReady'
    BY <1>7, <2>1, <2>2 DEF Create
  <2> QED BY <2>3, <2>4, <2>5
<1>8. CASE UNCHANGED vars
  BY <1>8 DEF vars
<1> QED BY <1>1, <1>2, <1>3, <1>4, <1>5, <1>6, <1>7, <1>8 DEF Next

\* Every variable of the handle table keeps its type, whatever tags the random byte yields.
THEOREM TypeCorrect == Spec => []TypeOK
<1>1. TableInv => TypeOK
  BY DEF TableInv
<1> QED BY TableInit, TableStep, <1>1, PTL DEF Spec

\* The bitmap and the states of the rows agree in every reachable state: rows are neither
\* given out twice nor lost, whatever tags the random byte yields.
THEOREM TableExact == Spec => []BitmapExact
<1>1. TableInv => BitmapExact
  BY DEF TableInv
<1> QED BY TableInit, TableStep, <1>1, PTL DEF Spec

-----------------------------------------------------------------------------

LEMMA HandleInit == Init => HandleInv
BY TableInit, NoneAssumption DEF Init, HandleInv, RowOwned, HeldDistinct

\* One step keeps owners and rows in step, when fresh tags are drawn.
LEMMA HandleStep == FreshTags /\ HandleInv /\ [Next]_vars => HandleInv'
<1> SUFFICES ASSUME FreshTags, HandleInv, [Next]_vars PROVE RowOwned' /\ HeldDistinct'
  BY TableStep DEF HandleInv
<1> USE HdlAssumption, NoneAssumption
    DEF HandleInv, TableInv, TypeOK, NotReady, RowOwned, HeldDistinct
<1>1. CASE InitTable
  BY <1>1 DEF InitTable
<1>2. CASE InitBitmap
  BY <1>2 DEF InitBitmap
<1>3. CASE InitBitmapFails
  BY <1>3 DEF InitBitmapFails
<1>4. CASE Deinit
  BY <1>4 DEF Deinit
<1>5. CASE FreeHdls
  BY <1>5 DEF FreeHdls
<1>6. ASSUME NEW o \in Owners, Destroy(o) PROVE RowOwned' /\ HeldDistinct'
  <2> DEFINE i == held[o].idx
  <2>1. held[o] \in Handle /\ i \in Rows
    BY <1>6 DEF Destroy, Handle
  <2>2. CASE Valid(held[o])
    <3>0. hdl_tbl = "ready" /\ state[i] /\ hdl_value[i] = held[o]
      BY <2>1, <2>2 DEF Valid
    <3>1. priv[i] = o
      <4>1. priv[i] \in Owners /\ held[priv[i]] = held[o]
        BY <2>1, <3>0
      <4> QED BY <2>1, <4>1
    <3>2. \A p \in Owners \ {o} : held[p] \in Handle /\ p \notin revoked => held[p].idx # i
      BY <3>1
    <3>3. /\ state' = [state EXCEPT ![i] = FALSE] /\ priv' = [priv EXCEPT ![i] = None]
          /\ held' = [held EXCEPT ![o] = None] /\ revoked' = revoked \ {o}
          /\ UNCHANGED <<hdl_tbl, hdl_value>>
      BY <1>6, <2>2 DEF Destroy
    <3>4. \A j \in Rows : state'[j] => j # i /\ state[j] /\ priv'[j] = priv[j] /\ priv[j] # o
      <4> SUFFICES ASSUME NEW j \in Rows, state'[j]
                   PROVE j # i /\ state[j] /\ priv'[j] = priv[j] /\ priv[j] # o
        OBVIOUS
      <4>1. j # i /\ state[j] /\ priv'[j] = priv[j]
        BY <2>1, <3>3
      <4>2. hdl_value[j] # None /\ hdl_value[j].idx = j
        BY <3>0, <4>1 DEF BitmapExact
      <4>3. held[priv[j]] = hdl_value[j]
        BY <3>0, <4>1
      <4> QED BY <4>1, <4>2, <4>3
    <3>5. \A j \in Rows : state'[j] => priv'[j] \in Owners \ revoked' /\ held'[priv'[j]] = hdl_value'[j]
      BY <3>0, <3>3, <3>4
    <3>6. \A p \in Owners \ revoked' : held'[p] # None => p # o /\ held[p].idx \in Rows \ {i}
      BY <3>2, <3>3 DEF Handle
    <3>7. \A p \in Owners \ revoked' : held'[p] # None =>
             hdl_tbl' = "ready" /\ state'[held'[p].idx] /\ hdl_value'[held'[p].idx] = held'[p]
                               /\ priv'[held'[p].idx] = p
      BY <2>1, <3>3, <3>6
    <3> QED BY <3>3, <3>5, <3>7
  <2>3. CASE ~Valid(held[o])
    <3>1. o \in revoked
      BY <2>1, <2>3, <1>6 DEF Destroy, Valid
    <3> QED BY <1>6, <2>1, <2>3, <3>1 DEF Destroy
  <2> QED BY <2>2, <2>3
<1>7. ASSUME NEW o \in Owners, NEW type \in Types, NEW tag \in Tags, Create(o, type, tag)
      PROVE RowOwned' /\ HeldDistinct'
  <2>1. PICK i \in 0 .. MaxHandles :
          LET h == [tag |-> tag, type |-> type, idx |-> i] IN
            /\ FreeIndex(i)
            /\ Fresh(h)
            /\ bitmap' = bitmap \cup {i}
            /\ hdl_value' = [hdl_value EXCEPT ![i] = h]
            /\ state' = [state EXCEPT ![i] = TRUE]
            /\ priv' = [priv EXCEPT ![i] = o]
            /\ held' = [held EXCEPT ![o] = h]
    BY <1>7 DEF Create
  <2> DEFINE h == [tag |-> tag, type |-> type, idx |-> i]
  <2>2. i \in Rows \ bitmap /\ h \in Handle /\ h.idx = i
    BY <2>1 DEF FreeIndex, FirstZeroBit, Rows, Handle
  <2>3. hdl_tbl = "ready" /\ ~state[i] /\ held[o] = None /\ o \notin revoked
    BY <1>7, <2>2 DEF Create, BitmapExact
  <2>4. \A p \in Owners \ {o} : held'[p] = held[p] /\ held[p] # h
    BY <2>1 DEF Fresh
  <2>5. HeldDistinct'
    BY <1>7, <2>1, <2>2, <2>3, <2>4 DEF Create
  <2>6. RowOwned'
    <3>1. UNCHANGED <<hdl_tbl, revoked>>
      BY <1>7 DEF Create
    <3>2. \A j \in Rows : state'[j] => priv'[j] \in Owners \ revoked' /\ held'[priv'[j]] = hdl_value'[j]
      <4> TAKE j \in Rows
      <4>1. CASE j = i
        BY <2>1, <2>2, <2>3, <3>1, <4>1
      <4>2. CASE j # i
        <5>1. state'[j] = state[j] /\ priv'[j] = priv[j] /\ hdl_value'[j] = hdl_value[j]
          BY <2>1, <2>2, <4>2
        <5>2. state[j] => priv[j] # o
          BY <2>3 DEF BitmapExact
        <5> QED BY <2>1, <2>3, <3>1, <5>1, <5>2
      <4> QED BY <4>1, <4>2
    <3>3. \A p \in Owners \ revoked' : held'[p] # None =>
             hdl_tbl' = "ready" /\ state'[held'[p].idx] /\ hdl_value'[held'[p].idx] = held'[p]
                               /\ priv'[held'[p].idx] = p
      <4> TAKE p \in Owners \ revoked'
      <4>1. CASE p = o
        BY <2>1, <2>2, <2>3, <3>1, <4>1
      <4>2. CASE p # o
        <5>1. held'[p] = held[p] /\ (held[p] # None => held[p].idx \in Rows \ {i})
          BY <2>2, <2>3, <2>4, <3>1, <4>2 DEF Handle
        <5> QED BY <2>1, <2>2, <3>1, <5>1
      <4> QED BY <4>1, <4>2
    <3> QED BY <3>2, <3>3
  <2> QED BY <2>5, <2>6
<1>8. CASE UNCHANGED vars
  BY <1>8 DEF vars
<1> QED BY <1>1, <1>2, <1>3, <1>4, <1>5, <1>6, <1>7, <1>8 DEF Next

\* The invariant on handles holds in every reachable state.
LEMMA HandleInvariant == ASSUME FreshTags PROVE Spec => []HandleInv
<1>1. HandleInv /\ [Next]_vars => HandleInv'
  BY HandleStep
<1> QED BY HandleInit, <1>1, PTL DEF Spec

\* A live handle leads to its owner's data over any number of creates, destroys and closes
\* (cam_get_device_priv), when the random byte repeats no tag still in use.
THEOREM HandlesLead == ASSUME FreshTags PROVE Spec => []LookupFindsOwner
<1>1. HandleInv => LookupFindsOwner
  BY NoneAssumption
     DEF HandleInv, TableInv, TypeOK, RowOwned, LookupFindsOwner, Lookup, Valid
<1> QED BY <1>1, HandleInvariant, PTL

\* A stale handle leads to nobody's data: cam_get_device_priv refuses it for ever, although
\* its row is handed out again, when the random byte repeats no tag still in use.
THEOREM StaleHandlesRefused == ASSUME FreshTags PROVE Spec => []StaleHandleDead
<1>1. HandleInv => StaleHandleDead
  <2> SUFFICES ASSUME HandleInv, NEW o \in revoked, Valid(held[o]) PROVE FALSE
    BY DEF StaleHandleDead, Lookup
  <2> USE NoneAssumption DEF HandleInv, TableInv, TypeOK, RowOwned, HeldDistinct, NotReady, Valid
  <2>1. held[o] \in Handle /\ held[o].idx \in Rows
    BY DEF Handle
  <2>2. hdl_tbl = "ready"
    BY <2>1
  <2>3. priv[held[o].idx] \in Owners \ revoked /\ held[priv[held[o].idx]] = held[o]
    BY <2>1, <2>2
  <2> QED BY <2>3
<1> QED BY <1>1, HandleInvariant, PTL
=============================================================================
