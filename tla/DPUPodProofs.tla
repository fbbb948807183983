---------------------------- MODULE DPUPodProofs ----------------------------
(***************************************************************************)
(* Proofs about DPUPod, for every number of requests, pods and faults.     *)
(* Each step of the pod is one of the allocator or leaves it as it is, and *)
(* so for the provisioner: the pod implements both, and what is proved of  *)
(* the allocator alone holds among the other containers as well.           *)
(***************************************************************************)
EXTENDS DPUPod, IPAllocatorProofs

\* A step of the pod is a step of the allocator, or none.
LEMMA StepOfAllocator == [SystemNext]_systemVars => [Next]_vars
  BY DEF systemVars, SystemNext, AllocatorStep, AllocatorStarted, StartProvisioner,
         ReadAllocations, Provision, ReportProvisioned, ProvisionerDies,
         ProvisionerStarted, StartOvn, OvnDies, OtherFault, KillOvn,
         KillProvisioner, KillAllocator, KillAll, PodEnds, NextPod, Next

\* The pod implements the allocator, with the containers that run beside it.
THEOREM ImplementsAllocator == SystemSpec => Spec
  <1>1. SystemInit => Init
    BY DEF SystemInit
  <1> QED  BY <1>1, StepOfAllocator, PTL DEF SystemSpec, Spec

\* Of the provisioner the pod sees what ProvisionerOutline describes, which is all
\* that Provisioner is proved to implement.
THEOREM ImplementsOutline == SystemSpec => Outline!Spec
  <1>1. SystemInit => Outline!Init
    BY DEF SystemInit, ProvInit
  <1>2. [SystemNext]_systemVars => [Outline!Next]_(Outline!vars)
    <2> SUFFICES ASSUME [SystemNext]_systemVars
                 PROVE  [Outline!Next]_(Outline!vars)
      OBVIOUS
    <2> USE DEF Outline!vars, Outline!Next
    <2>1. CASE AllocatorStep \/ AllocatorStarted \/ ProvisionerStarted \/ StartOvn
               \/ OvnDies \/ KillOvn \/ KillAllocator \/ PodEnds
      BY <2>1 DEF AllocatorStep, AllocatorStarted, ProvisionerStarted, StartOvn,
                  OvnDies, KillOvn, KillAllocator, PodEnds, provVars
    <2>2. CASE StartProvisioner \/ ReadAllocations \/ Provision \/ ReportProvisioned
               \/ ProvisionerDies \/ KillProvisioner \/ KillAll \/ NextPod
      BY <2>2 DEF StartProvisioner, ReadAllocations, Provision, ReportProvisioned,
                  ProvisionerDies, KillProvisioner, KillAll, NextPod
    <2>3. CASE UNCHANGED systemVars
      BY <2>3 DEF systemVars, provVars
    <2> QED  BY <2>1, <2>2, <2>3 DEF SystemNext
  <1> QED  BY <1>1, <1>2, PTL DEF SystemSpec, Outline!Spec

\* No step of the pod breaks the order in which its containers start and end.
LEMMA StepSystemIInv == SystemIInv /\ [SystemNext]_systemVars => SystemIInv'
  <1> SUFFICES ASSUME SystemIInv, [SystemNext]_systemVars PROVE SystemIInv'
    OBVIOUS
  <1> DEFINE Order == /\ prov # "down" => allocated
                      /\ prov = "ready" => conf
                      /\ provisioned => conf
                      /\ ovn => provisioned
                      /\ phase = "gone" => OthersAreGone
  <1>1. IInv'
    BY StepOfAllocator, NextInv DEF SystemIInv
  <1>2. ProvTypeOK /\ Order /\ phase \in {"running", "deleting", "gone"}
    BY DEF SystemIInv, IInv, TypeOK
  <1>3. ProvTypeOK' /\ Order'
    <2>1. CASE UNCHANGED systemVars
      BY <1>2, <2>1 DEF systemVars, vars, podVars, provVars, ProvTypeOK, OthersAreGone
    <2>2. CASE AllocatorStep
      <3>1. UNCHANGED provVars /\ (phase' = "gone" => phase = "gone")
        BY <2>2, <1>2
           DEF AllocatorStep, StartContainer, Allocate, AllocateRefused,
               AllocateFails, ReportReady, Exits, StartupProbeFails, DeletePod,
               Deallocate, DeallocateFails, podVars
      <3> QED  BY <1>2, <3>1 DEF provVars, ProvTypeOK, OthersAreGone
    <2>3. CASE AllocatorStarted \/ ProvisionerStarted \/ StartOvn \/ KillOvn
      <3> USE DEF AllocatorStarted, ProvisionerStarted, StartOvn, KillOvn
      <3>1. /\ allocated' \in BOOLEAN /\ provisioned' \in BOOLEAN
            /\ ovn' \in BOOLEAN
        BY <1>2, <2>3, Zenon DEF ProvTypeOK
      <3>2. UNCHANGED <<prov, conf, otherFaults, phase>>
        BY <2>3 DEF vars, podVars
      <3>3. Order'
        BY <1>2, <2>3, <3>2 DEF OthersAreGone
      <3> QED  BY <1>2, <3>1, <3>2, <3>3 DEF ProvTypeOK
    <2>4. CASE StartProvisioner \/ ReadAllocations \/ Provision \/ ReportProvisioned
               \/ ProvisionerDies \/ KillProvisioner
      <3> USE DEF StartProvisioner, ReadAllocations, Provision, ReportProvisioned,
                  ProvisionerDies, KillProvisioner
      <3>1. UNCHANGED <<allocated, provisioned, ovn, phase>>
        BY <2>4 DEF OtherFault, vars, podVars
      <3>2. conf' = conf \/ conf' = TRUE
        BY <2>4 DEF Outline!Start, Outline!Accept, Outline!WriteConf,
                    Outline!ReportReady, Outline!End
      <3>3. conf' \in BOOLEAN
        BY <1>2, <3>2, Zenon DEF ProvTypeOK
      <3>4. conf => conf'
        BY <3>2
      <3>5. /\ prov' \in {"down", "reading", "configuring", "ready"}
            /\ prov' # "down" => allocated
            /\ prov' = "ready" => conf
            /\ phase = "gone" => prov' = "down"
        BY <1>2, <2>4 DEF Outline!Start, Outline!Accept, Outline!WriteConf,
               Outline!ReportReady, Outline!End, OthersAreGone, ProvTypeOK
      <3>6. otherFaults' \in 0..MaxOtherFaults
        BY <1>2, <2>4, OtherFaultsAssumption DEF OtherFault, ProvTypeOK
      <3> QED  BY <1>2, <3>1, <3>3, <3>4, <3>5, <3>6 DEF ProvTypeOK, OthersAreGone
    <2>5. CASE OvnDies
      <3>1. /\ UNCHANGED <<allocated, prov, provisioned, conf, phase>> /\ ovn' = FALSE
            /\ otherFaults' \in 0..MaxOtherFaults
        BY <1>2, <2>5, OtherFaultsAssumption
           DEF OvnDies, OtherFault, vars, podVars, ProvTypeOK
      <3> QED  BY <1>2, <3>1 DEF ProvTypeOK, OthersAreGone
    <2>6. CASE KillAllocator
      BY <1>2, <2>6 DEF KillAllocator, KillContainer, podVars, provVars,
             ProvTypeOK, OthersAreGone
    <2>7. CASE KillAll
      <3>1. /\ UNCHANGED <<allocated, provisioned, otherFaults>>
            /\ prov' = "down" /\ ovn' = FALSE /\ (conf' = conf \/ conf' = TRUE)
        BY <2>7 DEF KillAll, Outline!End
      <3>2. conf' \in BOOLEAN
        BY <1>2, <3>1, Zenon DEF ProvTypeOK
      <3>3. conf => conf'
        BY <3>1
      <3> QED  BY <1>2, <3>1, <3>2, <3>3 DEF ProvTypeOK, OthersAreGone
    <2>8. CASE PodEnds
      BY <1>2, <2>8 DEF PodEnds, provVars, ProvTypeOK, OthersAreGone
    <2>9. CASE NextPod
      BY <1>2, <2>9
         DEF NextPod, CreatePod, Outline!LosePod, ProvTypeOK, OthersAreGone
    <2> QED  BY <2>1, <2>2, <2>3, <2>4, <2>5, <2>6, <2>7, <2>8, <2>9 DEF SystemNext
  <1> QED  BY <1>1, <1>3 DEF SystemIInv

\* The inductive invariant of the pod holds in every behaviour.
THEOREM SystemInductive == SystemSpec => []SystemIInv
  <1>1. SystemInit => SystemIInv
    <2> SUFFICES ASSUME SystemInit PROVE SystemIInv
      OBVIOUS
    <2> USE DEF SystemInit, ProvInit, Outline!Init
    <2>1. IInv /\ phase = "running"
      BY InitInv DEF Init
    <2>2. otherFaults \in 0..MaxOtherFaults
      BY OtherFaultsAssumption
    <2>3. ProvTypeOK
      BY <2>2 DEF ProvTypeOK
    <2> QED  BY <2>1, <2>3 DEF SystemIInv
  <1> QED  BY <1>1, StepSystemIInv, PTL DEF SystemSpec

\* The OVN containers run only with the configuration of their own pod.
THEOREM OvnHasConf == SystemSpec => []OvnFindsConf
  <1>1. SystemIInv => OvnFindsConf
    BY DEF SystemIInv, OvnFindsConf
  <1> QED  BY SystemInductive, <1>1, PTL

\* Beside the other containers too, a ready allocator's pod holds its addresses.
THEOREM PodReadyHolds == SystemSpec => []ReadyMeansHeld
  BY ImplementsAllocator, ReadyHolds, PTL

\* And a pod that was serving and whose deletion goes without a failure returns
\* them all.
THEOREM PodOrderlyReturns == SystemSpec => []OrderlyPodReturnsAll
  BY ImplementsAllocator, OrderlyReturns, PTL

\* The provisioner misses a result only when the allocator was stopped.
THEOREM RefusedBesideStop == SystemSpec => RefusedOnlyBesideStop
  <1>1. SystemIInv /\ [SystemNext]_systemVars =>
            [ReadAllocations /\ prov' = "down"
                 => alloc # Serving \/ hook # NoHook]_systemVars
    <2> SUFFICES ASSUME SystemIInv, ReadAllocations, prov' = "down",
                        alloc = Serving, hook = NoHook
                 PROVE  FALSE
      OBVIOUS
    <2>1. \A r \in Requests : r < Serving
      BY RequestsAssumption DEF Requests, Serving
    <2>2. Requests \subseteq ips /\ ips \subseteq Requests
      BY <2>1 DEF SystemIInv, IInv, TypeOK
    <2>3. ips # Requests
      BY DEF ReadAllocations, Outline!Accept
    <2> QED  BY <2>2, <2>3
  <1> QED  BY SystemInductive, <1>1, PTL DEF SystemSpec, RefusedOnlyBesideStop

=============================================================================
