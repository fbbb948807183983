-------------------------- MODULE ChassisReconcile --------------------------
(***************************************************************************)
(* reconcileHostNodeChassisID: a pass of the provisioner removes the       *)
(* chassis annotation from the Node of the host when it is not the         *)
(* system-id of the local Open vSwitch, so that ovnkube-node can register  *)
(* the DPU after it was reprovisioned.                                     *)
(*                                                                         *)
(* The Node is shared: ovnkube-node annotates it, everybody touches it, a  *)
(* pass is killed at any point, and a patch whose client has gone may      *)
(* still reach the API server, even after the DPU was reprovisioned.       *)
(***************************************************************************)
EXTENDS Naturals

CONSTANTS
    None,             \* no annotation, no registration under way
    MaxReprovisions,  \* bound on the number of times the DPU is reprovisioned
    MaxTouches,       \* bound on unrelated updates of the Node
    MaxFaults         \* bound on failing calls, lost answers and crashes

ASSUME NoneAssumption == None \notin Nat
ASSUME BoundAssumption ==
    MaxReprovisions \in Nat /\ MaxTouches \in Nat /\ MaxFaults \in Nat

VARIABLES
    sid,          \* external_ids:system-id of the local Open vSwitch
    node,         \* the Node of the host: chassis annotation, resourceVersion
    pc,           \* where the pass is: "idle", "get" (GetSystemID done), "wait"
    systemID,     \* the local variable systemID
    version,      \* the resourceVersion in the patch of a pass in "wait"
    orphans,      \* versions in patches that nobody waits for any more
    registering,  \* the id an ovnkube-node is about to annotate, or None
    touches, faults

passVars == <<pc, systemID, version>>
vars == <<sid, node, pc, systemID, version, orphans, registering, touches, faults>>

TypeOK ==
    /\ sid \in 1..(MaxReprovisions + 1)
    /\ node \in [chassis : Nat \cup {None}, rv : Nat]
    /\ pc \in {"idle", "get", "wait"}
    /\ systemID \in Nat /\ version \in Nat
    /\ orphans \subseteq Nat
    /\ registering \in Nat \cup {None}
    /\ touches \in 0..MaxTouches /\ faults \in 0..MaxFaults

\* The annotation is missing, is the DPU's own or is from before.
Init ==
    /\ sid = 1
    /\ node \in [chassis : {None, 0, 1}, rv : {0}]
    /\ pc = "idle" /\ systemID = 0 /\ version = 0
    /\ orphans = {} /\ registering = None
    /\ touches = 0 /\ faults = 0

-----------------------------------------------------------------------------
\* GetSystemID, in every pass. (An empty id is an error: CallFails.)
ReadSystemID ==
    /\ pc = "idle"
    /\ pc' = "get" /\ systemID' = sid
    /\ UNCHANGED <<sid, node, version, orphans, registering, touches, faults>>

\* A mutated form for the checks: an annotation is taken for one that matches.
GetHostNode_AnyMatches ==
    /\ pc = "get"
    /\ pc' = "idle"
    /\ UNCHANGED <<sid, node, systemID, version, orphans, registering, touches,
                   faults>>

\* A mutated form for the checks: any annotation is taken for a stale one.
GetHostNode_AnyStale ==
    /\ pc = "get"
    /\ IF node.chassis = None
       THEN pc' = "idle" /\ UNCHANGED version
       ELSE pc' = "wait" /\ version' = node.rv
    /\ UNCHANGED <<sid, node, systemID, orphans, registering, touches, faults>>

\* Get of the Node. Without an annotation, or with a matching one, there is
\* nothing to do; otherwise the patch that deletes it is sent, with the
\* resourceVersion that was read.
GetHostNode ==
    /\ pc = "get"
    /\ IF node.chassis \in {None, systemID}
       THEN pc' = "idle" /\ UNCHANGED version
       ELSE pc' = "wait" /\ version' = node.rv
    /\ UNCHANGED <<sid, node, systemID, orphans, registering, touches, faults>>

\* A mutated form for the checks: a patch without MergeFromWithOptimisticLock.
Patched_NoLock(v) == [chassis |-> None, rv |-> node.rv + 1]

\* The API server applies a patch unless the Node has changed since the version
\* in it (a conflict).
Patched(v) ==
    IF node.rv = v THEN [chassis |-> None, rv |-> node.rv + 1] ELSE node

PatchAnswered ==
    /\ pc = "wait"
    /\ pc' = "idle"
    /\ node' = Patched(version)
    /\ UNCHANGED <<sid, systemID, version, orphans, registering, touches, faults>>

\* A call returns an error or the process is killed, by kubelet, by klog.Fatal
\* of RunOnce or by a crash. A patch on its way stays on its way.
CallFails ==
    /\ pc # "idle"
    /\ faults < MaxFaults /\ faults' = faults + 1
    /\ pc' = "idle"
    /\ orphans' = IF pc = "wait" THEN orphans \cup {version} ELSE orphans
    /\ UNCHANGED <<sid, node, systemID, version, registering, touches>>

OrphanArrives ==
    /\ \E v \in orphans : node' = Patched(v) /\ orphans' = orphans \ {v}
    /\ UNCHANGED <<sid, passVars, registering, touches, faults>>

-----------------------------------------------------------------------------
\* ovnkube-node annotates a Node that has no chassis id, and does not replace
\* one; its update may arrive late, too.
StartRegister ==
    /\ node.chassis = None /\ registering = None
    /\ registering' = sid
    /\ UNCHANGED <<sid, node, passVars, orphans, touches, faults>>

FinishRegister ==
    /\ registering # None
    /\ registering' = None
    /\ node' = IF node.chassis = None
               THEN [chassis |-> registering, rv |-> node.rv + 1] ELSE node
    /\ UNCHANGED <<sid, passVars, orphans, touches, faults>>

\* Heartbeats, other labels and annotations.
TouchNode ==
    /\ touches < MaxTouches /\ touches' = touches + 1
    /\ node' = [node EXCEPT !.rv = @ + 1]
    /\ UNCHANGED <<sid, passVars, orphans, registering, faults>>

\* The DPU is installed anew: a fresh system-id, and the process is gone.
Reprovision ==
    /\ sid <= MaxReprovisions
    /\ sid' = sid + 1
    /\ pc' = "idle"
    /\ orphans' = IF pc = "wait" THEN orphans \cup {version} ELSE orphans
    /\ UNCHANGED <<node, systemID, version, registering, touches, faults>>

Next ==
    \/ ReadSystemID \/ GetHostNode \/ PatchAnswered \/ CallFails
    \/ OrphanArrives \/ StartRegister \/ FinishRegister \/ TouchNode
    \/ Reprovision

\* The ticker starts passes for ever, calls return, ovnkube-node registers. An
\* orphaned patch may be lost.
Fairness ==
    /\ WF_vars(ReadSystemID) /\ WF_vars(GetHostNode) /\ WF_vars(PatchAnswered)
    /\ WF_vars(StartRegister) /\ WF_vars(FinishRegister)

Spec == Init /\ [][Next]_vars
FairSpec == Spec /\ Fairness

-----------------------------------------------------------------------------
Promise == INSTANCE HostChassis WITH chassis <- node.chassis

\* Whatever is delayed, lost, repeated or overtaken, the live id of the DPU is
\* never removed from the Node and no id is replaced: the reconciliation is a
\* behaviour of HostChassis.
KeepsPromise == Promise!Spec

\* A stale id, also one that is written late by the ovnkube-node of an earlier
\* life, eventually gives way to the DPU's own, for good.
EventuallyRegistered == <>[](node.chassis = sid)

\* The inductive invariant: an id is never of the future, a pass works with the
\* id the DPU has, and a patch that still fits the Node fits a stale id.
FitsStale(v) == v <= node.rv /\ (v = node.rv => node.chassis \notin {None, sid})

IInv ==
    /\ TypeOK
    /\ node.chassis # None => node.chassis <= sid
    /\ registering # None => registering <= sid
    /\ pc # "idle" => systemID = sid
    /\ pc = "wait" => FitsStale(version)
    /\ \A v \in orphans : FitsStale(v)

=============================================================================
