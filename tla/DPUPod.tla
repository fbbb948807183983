------------------------------- MODULE DPUPod -------------------------------
(***************************************************************************)
(* The pod of the DaemonSet on a DPU in internal mode                      *)
(* (src/helm/ovn-kubernetes-dpf/templates/dpu-manifests.yaml): the IP      *)
(* allocator, the CNI provisioner and the OVN containers, which start one  *)
(* after the other and pass one another files in volumes of the pod.       *)
(*                                                                         *)
(* The first two are init containers that go on running: kubelet starts    *)
(* the next container when the startup probe of the one before has         *)
(* succeeded once in the pod, and restarts each on its own from then on.   *)
(*                                                                         *)
(* The actions of the allocator are those of IPAllocator, the ones of the  *)
(* provisioner those of ProvisionerOutline, which Provisioner implements:  *)
(* here kubelet orders them.                                               *)
(***************************************************************************)
EXTENDS IPAllocator

CONSTANT MaxOtherFaults  \* bound on what dies besides the allocator

ASSUME OtherFaultsAssumption == MaxOtherFaults \in Nat

VARIABLES
    allocated,   \* the allocator's startup probe has succeeded in this pod
    prov,        \* the provisioner: "down", "reading", "configuring", "ready"
    provisioned, \* its startup probe has succeeded in this pod
    conf,        \* ovn_k8s.conf is in the volume of this pod
    ovn,         \* the OVN containers run
    otherFaults

provVars == <<allocated, prov, provisioned, conf, ovn, otherFaults>>
systemVars == <<vars, provVars>>

ProvTypeOK ==
    /\ allocated \in BOOLEAN /\ provisioned \in BOOLEAN
    /\ conf \in BOOLEAN /\ ovn \in BOOLEAN
    /\ prov \in {"down", "reading", "configuring", "ready"}
    /\ otherFaults \in 0..MaxOtherFaults

Outline == INSTANCE ProvisionerOutline

ProvInit ==
    /\ allocated = FALSE /\ provisioned = FALSE /\ ovn = FALSE
    /\ Outline!Init
    /\ otherFaults = 0

SystemInit == Init /\ ProvInit

-----------------------------------------------------------------------------
\* The startup probes, which kubelet asks until they succeed.
AllocatorStarted ==
    /\ phase = "running" /\ ready /\ ~allocated
    /\ allocated' = TRUE
    /\ UNCHANGED <<vars, prov, provisioned, conf, ovn, otherFaults>>

ProvisionerStarted ==
    /\ phase = "running" /\ prov = "ready" /\ ~provisioned
    /\ provisioned' = TRUE
    /\ UNCHANGED <<vars, allocated, prov, conf, ovn, otherFaults>>

\* The first start waits for the allocator; later ones wait for nothing.
StartProvisioner ==
    /\ phase = "running" /\ allocated
    /\ Outline!Start
    /\ UNCHANGED <<vars, allocated, provisioned, ovn, otherFaults>>

\* main reads both results, and ends with klog.Fatal when one is missing.
ReadAllocations ==
    /\ prov = "reading"
    /\ IF ips = Requests THEN Outline!Accept ELSE Outline!End
    /\ UNCHANGED <<vars, allocated, provisioned, ovn, otherFaults>>

\* RunOnce and later passes.
Provision ==
    /\ Outline!WriteConf
    /\ UNCHANGED <<vars, allocated, provisioned, ovn, otherFaults>>

\* A mutated form for the checks: readiness is reported beside the first pass.
ReportProvisioned_First ==
    /\ prov = "configuring"
    /\ prov' = "ready"
    /\ UNCHANGED <<vars, allocated, provisioned, conf, ovn, otherFaults>>

ReportProvisioned ==
    /\ Outline!ReportReady
    /\ UNCHANGED <<vars, allocated, provisioned, ovn, otherFaults>>

OtherFault ==
    /\ otherFaults < MaxOtherFaults /\ otherFaults' = otherFaults + 1
    /\ UNCHANGED vars

\* A pass fails, before or after ovn_k8s.conf, or the process dies.
ProvisionerDies ==
    /\ Outline!End /\ OtherFault
    /\ UNCHANGED <<allocated, provisioned, ovn>>

StartOvn ==
    /\ phase = "running" /\ provisioned /\ ~ovn
    /\ ovn' = TRUE
    /\ UNCHANGED <<vars, allocated, prov, provisioned, conf, otherFaults>>

OvnDies ==
    /\ ovn /\ OtherFault
    /\ ovn' = FALSE
    /\ UNCHANGED <<allocated, prov, provisioned, conf>>

-----------------------------------------------------------------------------
(***************************************************************************)
(* Deletion: preStop runs at once, the containers are killed in reverse    *)
(* order.                                                                  *)
(***************************************************************************)
KillOvn ==
    /\ phase = "deleting" /\ ovn
    /\ ovn' = FALSE
    /\ UNCHANGED <<vars, allocated, prov, provisioned, conf, otherFaults>>

\* A mutated form for the checks: the provisioner is kept for the allocator.
KillProvisioner_Last ==
    /\ phase = "deleting" /\ alloc = Down /\ prov # "down"
    /\ prov' = "down"
    /\ UNCHANGED <<vars, allocated, provisioned, conf, ovn, otherFaults>>

KillProvisioner ==
    /\ phase = "deleting" /\ ~ovn
    /\ Outline!End
    /\ UNCHANGED <<vars, allocated, provisioned, ovn, otherFaults>>

OthersAreGone == prov = "down" /\ ~ovn

\* Of the actions of the allocator, those that only concern it.
AllocatorStep ==
    /\ \/ StartContainer \/ Allocate \/ AllocateRefused \/ AllocateFails
       \/ ReportReady \/ Exits
       \/ StartupProbeFails \/ DeletePod \/ Deallocate \/ DeallocateFails
    /\ UNCHANGED provVars

KillAllocator ==
    /\ phase = "deleting" => OthersAreGone
    /\ KillContainer
    /\ UNCHANGED provVars

PodEnds ==
    /\ PodGone /\ OthersAreGone
    /\ UNCHANGED provVars

\* With the node, or at the end of the grace period.
KillAll ==
    /\ KillPod
    /\ \/ Outline!End
       \/ prov = "down" /\ UNCHANGED <<prov, conf>>
    /\ ovn' = FALSE
    /\ UNCHANGED <<allocated, provisioned, otherFaults>>

\* A mutated form for the checks: the volume of ovn_k8s.conf is emptied, and
\* the probes are taken to have succeeded.
NextPod_KeepsStarted ==
    /\ CreatePod
    /\ Outline!LosePod
    /\ UNCHANGED <<allocated, provisioned, ovn, otherFaults>>

NextPod ==
    /\ CreatePod
    /\ Outline!LosePod
    /\ allocated' = FALSE /\ provisioned' = FALSE
    /\ UNCHANGED <<ovn, otherFaults>>

SystemNext ==
    \/ AllocatorStep \/ AllocatorStarted
    \/ StartProvisioner \/ ReadAllocations \/ Provision \/ ReportProvisioned
    \/ ProvisionerDies \/ ProvisionerStarted \/ StartOvn \/ OvnDies
    \/ KillOvn \/ KillProvisioner \/ KillAllocator \/ KillAll
    \/ PodEnds \/ NextPod

\* kubelet starts, probes and kills, and the programs go on.
SystemFairness ==
    /\ WF_systemVars(StartContainer /\ UNCHANGED provVars)
    /\ WF_systemVars(Allocate /\ UNCHANGED provVars)
    /\ WF_systemVars(AllocateRefused /\ UNCHANGED provVars)
    /\ WF_systemVars(ReportReady /\ UNCHANGED provVars)
    /\ WF_systemVars(Deallocate /\ UNCHANGED provVars)
    /\ WF_systemVars(KillAllocator)
    /\ WF_systemVars(AllocatorStarted) /\ WF_systemVars(StartProvisioner)
    /\ WF_systemVars(ReadAllocations) /\ WF_systemVars(Provision)
    /\ WF_systemVars(ReportProvisioned)
    /\ WF_systemVars(ProvisionerStarted) /\ WF_systemVars(StartOvn)
    /\ WF_systemVars(KillOvn) /\ WF_systemVars(KillProvisioner)
    /\ WF_systemVars(PodEnds) /\ WF_systemVars(NextPod)

SystemSpec == SystemInit /\ [][SystemNext]_systemVars
FairSystemSpec == SystemSpec /\ SystemFairness

-----------------------------------------------------------------------------
\* The OVN containers run only with the configuration of their own pod in their
\* volume, however often the containers before them have been restarted.
OvnFindsConf == ovn => conf

\* What the allocator leaves for the provisioner is complete while it serves: the
\* provisioner ends for want of a result only when the allocator of the same pod
\* has been restarted or is being stopped.
RefusedOnlyBesideStop ==
    [][ReadAllocations /\ prov' = "down" => alloc # Serving \/ hook # NoHook]_systemVars

\* The pods come up: one that is not deleted, and whose addresses no other pod
\* holds, runs all its containers for good.
EventuallyUp ==
    <>[](phase = "running" /\ \A r \in Requests : holder[r] \in {Nobody, pod})
        => <>[](ready /\ prov = "ready" /\ ovn)

\* The containers of a deleted pod do not wait for one another for ever.
EventuallyGone == phase = "deleting" ~> phase = "gone"

\* The inductive invariant, with that of the allocator.
SystemIInv ==
    /\ IInv /\ ProvTypeOK
    /\ prov # "down" => allocated
    /\ prov = "ready" => conf
    /\ provisioned => conf
    /\ ovn => provisioned
    /\ phase = "gone" => OthersAreGone

=============================================================================
