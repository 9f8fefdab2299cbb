----------------------------- MODULE MCCamSync -----------------------------
(***************************************************************************)
(* Instances of CamSync: who the threads are and which calls they make.    *)
(***************************************************************************)
EXTENDS CamSyncRefines, TLC

CONSTANTS t1, t2, t3

\* Arbitrary clients: one opens and closes the device and builds groups, the other merges,
\* signals and destroys at any moment.
AnyCalls == t1 :> {"open", "close", "create", "merge"}
         @@ t2 :> {"merge", "umd_signal", "destroy"}

\* A process that opens, uses and closes the device beside a kernel client.
DeviceCalls == t1 :> {"open", "close", "create", "payload", "depayload"}
            @@ t2 :> {"getref", "putref", "signal", "register", "deregister"}
            @@ t3 :> {"wait", "umd_signal"}

\* Clients that keep the contract
RefinesCalls == t1 :> {"open", "create", "merge", "destroy", "register", "deregister"}
             @@ t2 :> {"umd_signal"}

GroupCalls == t1 :> {"open", "create", "merge"}
           @@ t2 :> {"umd_signal"}
           @@ t3 :> {"umd_signal"}

\* The shortest ways to what the comments leave out
SweepCalls   == t1 :> {"open", "close", "create"}
PayloadCalls == t1 :> {"open", "create", "merge", "payload"} @@ t2 :> {"umd_signal"}
ReopenCalls  == t1 :> {"open", "close"} @@ t2 :> {"open", "create", "payload", "umd_signal"}

Symm == Permutations(Objs)
=============================================================================
