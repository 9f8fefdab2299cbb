------------------------------- MODULE CamHdl -------------------------------
(***************************************************************************)
(* The handle table of the camera request manager (cam_req_mgr_util.c).    *)
(*                                                                         *)
(* Sessions, links and devices are named by handles: a random tag, a type  *)
(* and the index of a table row.  Every call runs under hdl_tbl_lock and   *)
(* is one action; a call that is refused changes nothing and is left out.  *)
(* The owners keep their handles over a close of the request manager,      *)
(* which frees all rows behind their backs.  ops and dev_id are written    *)
(* and cleared with priv and not kept apart from it.                       *)
(***************************************************************************)
EXTENDS Naturals

CONSTANTS
  MaxHandles, (* CAM_REQ_MGR_MAX_HANDLES_V2, the rows of the table                  *)
  Tags,       (* the values of the random byte                                      *)
  Owners,     (* sessions, links and devices; the private data of a handle          *)
  FreshTags,  (* the random byte never repeats a tag still held for the same row    *)
  None        (* no handle, NULL                                                    *)

ASSUME HdlAssumption ==
  /\ MaxHandles \in Nat
  /\ FreshTags \in BOOLEAN
  /\ None \notin Owners

HDL_TYPE_DEV     == 1
HDL_TYPE_SESSION == 2
Types  == {HDL_TYPE_DEV, HDL_TYPE_SESSION}
Rows   == 0 .. MaxHandles - 1
Handle == [tag : Tags, type : Types, idx : Rows]
ASSUME NoneAssumption == None \notin Handle

VARIABLES
  hdl_tbl,   (* the table: "null", "bare" (no bitmap yet) or "ready"                *)
  state,     (* state[i]: row i is HDL_ACTIVE                                       *)
  hdl_value, (* hdl_value[i]: the handle of row i; stays behind when it is freed    *)
  priv,      (* priv[i]: the private data of row i                                  *)
  bitmap,    (* the rows whose bit is set                                           *)
  held,      (* held[o]: the handle owner o was given and has not destroyed         *)
  revoked    (* the owners whose row was freed by a close or with the table         *)

table == <<hdl_tbl, state, hdl_value, priv, bitmap>>
vars  == <<hdl_tbl, state, hdl_value, priv, bitmap, held, revoked>>

Init ==
  /\ hdl_tbl = "null"
  /\ state = [i \in Rows |-> FALSE]
  /\ hdl_value = [i \in Rows |-> None]
  /\ priv = [i \in Rows |-> None]
  /\ bitmap = {}
  /\ held = [o \in Owners |-> None]
  /\ revoked = {}

-----------------------------------------------------------------------------
(* cam_req_mgr_util_init, cam_req_mgr_util_deinit: probe and remove         *)

\* A zeroed table is published under the lock, its bitmap is allocated afterwards.
InitTable ==
  /\ hdl_tbl = "null"
  /\ hdl_tbl' = "bare"
  /\ state' = [i \in Rows |-> FALSE]
  /\ hdl_value' = [i \in Rows |-> None]
  /\ priv' = [i \in Rows |-> None]
  /\ UNCHANGED <<bitmap, held, revoked>>

InitBitmap ==
  /\ hdl_tbl = "bare"
  /\ hdl_tbl' = "ready"
  /\ bitmap' = {}
  /\ UNCHANGED <<state, hdl_value, priv, held, revoked>>

\* kzalloc of the bitmap fails: the table is freed again.
InitBitmapFails ==
  /\ hdl_tbl = "bare"
  /\ hdl_tbl' = "null"
  /\ UNCHANGED <<state, hdl_value, priv, bitmap, held, revoked>>

Deinit ==
  /\ hdl_tbl = "ready"
  /\ hdl_tbl' = "null"
  /\ bitmap' = {}
  /\ revoked' = {o \in Owners : held[o] # None}
  /\ UNCHANGED <<state, hdl_value, priv, held>>

-----------------------------------------------------------------------------

\* cam_get_free_handle_index: find_first_zero_bit, then the range check
\* (mutant: the check is idx > CAM_REQ_MGR_MAX_HANDLES_V2)
FirstZeroBit(i) ==
  IF Rows \subseteq bitmap THEN i = MaxHandles
  ELSE i \in Rows \ bitmap /\ \A j \in Rows \ bitmap : i <= j

FreeIndex_PastEnd(i) == FirstZeroBit(i) /\ i <= MaxHandles
FreeIndex(i) == FirstZeroBit(i) /\ i < MaxHandles

\* The random byte repeats no tag that somebody still holds for the row.
Fresh(h) == \A o \in Owners : held[o] # h

\* cam_create_session_hdl, cam_create_device_hdl: the owner has no handle yet
\* (mutant: the bit of the row is not set)
Create_NoBit(o, type, tag) ==
  /\ hdl_tbl = "ready" /\ held[o] = None
  /\ \E i \in 0 .. MaxHandles : LET h == [tag |-> tag, type |-> type, idx |-> i] IN
       /\ FreeIndex(i)
       /\ FreshTags => Fresh(h)
       /\ hdl_value' = [hdl_value EXCEPT ![i] = h]
       /\ state' = [state EXCEPT ![i] = TRUE]
       /\ priv' = [priv EXCEPT ![i] = o]
       /\ held' = [held EXCEPT ![o] = h]
  /\ UNCHANGED <<hdl_tbl, bitmap, revoked>>

Create(o, type, tag) ==
  /\ hdl_tbl = "ready" /\ held[o] = None
  /\ \E i \in 0 .. MaxHandles : LET h == [tag |-> tag, type |-> type, idx |-> i] IN
       /\ FreeIndex(i)
       /\ FreshTags => Fresh(h)
       /\ bitmap' = bitmap \cup {i}
       /\ hdl_value' = [hdl_value EXCEPT ![i] = h]
       /\ state' = [state EXCEPT ![i] = TRUE]
       /\ priv' = [priv EXCEPT ![i] = o]
       /\ held' = [held EXCEPT ![o] = h]
  /\ UNCHANGED <<hdl_tbl, revoked>>

\* The checks of cam_get_device_priv, cam_get_device_ops and cam_destroy_hdl: the row the
\* handle points to is active and was given out under this very handle
\* (mutants: the state is not looked at; the tag is not compared)
Valid_AnyState(h) == hdl_tbl # "null" /\ hdl_value[h.idx] = h
Valid_AnyTag(h)   == hdl_tbl # "null" /\ state[h.idx] /\ hdl_value[h.idx].type = h.type
Valid(h) == hdl_tbl # "null" /\ state[h.idx] /\ hdl_value[h.idx] = h

\* cam_get_device_priv, cam_get_device_ops
Lookup(h) == IF Valid(h) THEN priv[h.idx] ELSE None

\* cam_destroy_hdl by the handle's owner, who forgets it whatever the call returns
Destroy(o) ==
  /\ held[o] # None
  /\ held' = [held EXCEPT ![o] = None]
  /\ revoked' = revoked \ {o}
  /\ LET i == held[o].idx IN
       IF Valid(held[o])
       THEN /\ state' = [state EXCEPT ![i] = FALSE]
            /\ priv' = [priv EXCEPT ![i] = None]
            /\ bitmap' = bitmap \ {i}
       ELSE UNCHANGED <<state, priv, bitmap>>
  /\ UNCHANGED <<hdl_tbl, hdl_value>>

\* cam_req_mgr_util_free_hdls, at the end of the request manager's close; the handle and
\* the private data stay in the rows
\* (mutant: the states are left to the next create)
FreeHdls_BitmapOnly ==
  /\ hdl_tbl = "ready"
  /\ bitmap' = {}
  /\ revoked' = {o \in Owners : held[o] # None}
  /\ UNCHANGED <<hdl_tbl, state, hdl_value, priv, held>>

FreeHdls ==
  /\ hdl_tbl = "ready"
  /\ state' = [i \in Rows |-> FALSE]
  /\ bitmap' = {}
  /\ revoked' = {o \in Owners : held[o] # None}
  /\ UNCHANGED <<hdl_tbl, hdl_value, priv, held>>

-----------------------------------------------------------------------------

Next ==
  \/ InitTable \/ InitBitmap \/ InitBitmapFails \/ Deinit \/ FreeHdls
  \/ \E o \in Owners : Destroy(o) \/ \E type \in Types, tag \in Tags : Create(o, type, tag)

Spec == Init /\ [][Next]_vars

-----------------------------------------------------------------------------

TypeOK ==
  /\ hdl_tbl \in {"null", "bare", "ready"}
  /\ state \in [Rows -> BOOLEAN]
  /\ hdl_value \in [Rows -> Handle \cup {None}]
  /\ priv \in [Rows -> Owners \cup {None}]
  /\ bitmap \subseteq Rows
  /\ held \in [Owners -> Handle \cup {None}]
  /\ revoked \subseteq Owners

\* The bitmap the rows are allocated from agrees with the states that lookups test, over
\* creates, destroys with dead handles, closes and reprobes: no active row is given out
\* again and no free row is lost.
BitmapExact ==
  hdl_tbl = "ready" =>
    /\ bitmap = {i \in Rows : state[i]}
    /\ \A i \in bitmap : hdl_value[i] # None /\ hdl_value[i].idx = i

\* A handle that was not freed behind its owner's back leads to its owner's data until the
\* owner destroys it, whatever other owners, with live or with stale handles, do meanwhile.
LookupFindsOwner ==
  \A o \in Owners : held[o] # None /\ o \notin revoked => Lookup(held[o]) = o

\* A handle kept over a close leads to nothing, never to the data of the object that got its
\* row later.
StaleHandleDead == \A o \in revoked : Lookup(held[o]) = None
=============================================================================
