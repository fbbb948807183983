------------------------- MODULE IPAllocatorProofs -------------------------
(***************************************************************************)
(* What a ready container and an orderly deletion guarantee about the      *)
(* addresses of a pod, for any number of requests, pods and faults, and    *)
(* whether or not NVIPAM gives an address twice to the same pod.           *)
(***************************************************************************)
EXTENDS IPAllocator, TLAPS

\* The initial state satisfies the inductive invariant.
LEMMA InitInv == Init => IInv
<1> SUFFICES ASSUME Init PROVE IInv
    OBVIOUS
<1> USE RequestsAssumption, BoundAssumption
    DEF Init, Requests, Down, Serving, NoHook, Ended, Nobody
<1>1. /\ pod \in 1..MaxPods /\ faults \in 0..MaxFaults
      /\ alloc \in 0..Serving /\ hook \in 0..Ended
    OBVIOUS
<1>2. /\ phase \in {"running", "deleting", "gone"} /\ ips \subseteq Requests
      /\ ready \in BOOLEAN /\ served \in BOOLEAN
    OBVIOUS
<1>3. holder \in [Requests -> 0..MaxPods]
    OBVIOUS
<1>4. TypeOK
    BY <1>1, <1>2, <1>3, Zenon DEF TypeOK
<1>5. \A r \in Requests : ~(r < alloc) /\ holder[r] <= pod
    OBVIOUS
<1> QED
    BY <1>4, <1>5 DEF IInv

\* An allocation that is cut short gives an address to this pod or to nobody.
LEMMA CutShortLemma ==
    ASSUME IInv, AllocationCutShort
    PROVE  /\ holder' \in [Requests -> 0..MaxPods]
           /\ \A r \in Requests : holder'[r] = holder[r] \/ holder'[r] = pod
           /\ alloc \notin Requests => UNCHANGED holder
BY BoundAssumption DEF AllocationCutShort, IInv, TypeOK

\* Returning an address takes it from this pod only.
LEMMA ReturnedLemma ==
    ASSUME IInv, NEW r \in Requests
    PROVE  /\ Returned(r) \in [Requests -> 0..MaxPods]
           /\ Returned(r)[r] # pod
           /\ \A q \in Requests : Returned(r)[q] \in {holder[q], Nobody}
BY BoundAssumption DEF Returned, IInv, TypeOK, Nobody

\* Every step of the allocator, of preStop and of kubelet preserves the
\* inductive invariant.
LEMMA NextInv == IInv /\ [Next]_vars => IInv'
<1> SUFFICES ASSUME IInv, [Next]_vars PROVE IInv'
    OBVIOUS
<1> USE RequestsAssumption, BoundAssumption
    DEF Holds, Requests, Down, Serving, Report, NoHook, Ended, Nobody,
        containerVars, podVars, Fault
<1>0. IInv /\ TypeOK
    BY DEF IInv
<1>1. CASE StartContainer
    BY <1>1 DEF StartContainer, IInv, TypeOK
<1>2. CASE Allocate
    <2>1. /\ holder' = [holder EXCEPT ![alloc] = pod] /\ alloc \in Requests
          /\ ips' = ips \cup {alloc} /\ alloc' = alloc + 1
          /\ UNCHANGED <<pod, phase, served, hook, ready, faults>>
        BY <1>2 DEF Allocate
    <2>2. TypeOK'
        BY <1>0, <2>1 DEF TypeOK
    <2>3. ~served /\ ~ready
        BY <1>0, <2>1 DEF IInv
    <2>4. \A r \in Requests : holder'[r] = IF r = alloc THEN pod ELSE holder[r]
        BY <1>0, <2>1 DEF TypeOK
    <2> QED
        BY <1>0, <2>1, <2>2, <2>3, <2>4 DEF IInv, TypeOK
<1>3. CASE AllocateRefused \/ Exits
    <2>1. /\ ContainerEnds /\ alloc # Down /\ served' = FALSE
          /\ UNCHANGED <<pod, phase, ips, holder>> /\ faults' \in 0..MaxFaults
        BY <1>0, <1>3 DEF AllocateRefused, Exits, IInv, TypeOK
    <2>2. /\ alloc' = Down /\ ready' = FALSE
          /\ hook' = IF phase = "running" THEN NoHook ELSE Ended
        BY <2>1 DEF ContainerEnds
    <2>3. TypeOK'
        <3>1. ready' \in BOOLEAN /\ served' \in BOOLEAN
            BY <1>0, <2>1, <2>2 DEF TypeOK
        <3> QED
            BY <1>0, <2>1, <2>2, <3>1 DEF TypeOK
    <2> QED
        BY <1>0, <2>1, <2>2, <2>3 DEF IInv
<1>4. CASE AllocateFails \/ KillContainer
    <2>1. /\ AllocationCutShort /\ ContainerEnds
          /\ UNCHANGED <<pod, phase, served, ips>> /\ faults' \in 0..MaxFaults
        BY <1>0, <1>4 DEF AllocateFails, KillContainer, TypeOK
    <2>2. /\ alloc' = Down /\ ready' = FALSE
          /\ hook' = IF phase = "running" THEN NoHook ELSE Ended
        BY <2>1 DEF ContainerEnds
    <2>3. /\ holder' \in [Requests -> 0..MaxPods]
          /\ \A r \in Requests : holder'[r] = holder[r] \/ holder'[r] = pod
          /\ alloc \notin Requests => UNCHANGED holder
        BY <1>0, <2>1, CutShortLemma
    <2>4. TypeOK'
        <3>1. ready' \in BOOLEAN /\ served' \in BOOLEAN
            BY <1>0, <2>1, <2>2, <2>3 DEF TypeOK
        <3> QED
            BY <1>0, <2>1, <2>2, <2>3, <3>1 DEF TypeOK
    <2>5. served' => UNCHANGED holder /\ hook = Ended /\ phase # "running"
        BY <1>0, <1>4, <2>1, <2>3 DEF IInv, AllocateFails, KillContainer
    <2>6. \A r \in Requests : holder'[r] <= pod
        BY <1>0, <2>3 DEF IInv, TypeOK
    <2> QED
        BY <1>0, <2>1, <2>2, <2>4, <2>5, <2>6 DEF IInv
<1>5. CASE ReportReady
    BY <1>5 DEF ReportReady, IInv, TypeOK
<1>7. CASE StartupProbeFails
    BY <1>7 DEF StartupProbeFails, IInv, TypeOK
<1>8. CASE DeletePod
    <2>1. /\ phase = "running" /\ phase' = "deleting"
          /\ hook' = IF alloc = Down THEN Ended
                     ELSE IF hook = NoHook THEN 1 ELSE hook
          /\ UNCHANGED <<pod, alloc, ready, ips, holder, faults>>
        BY <1>8 DEF DeletePod
    <2>2. served' \in BOOLEAN
        BY <1>8 DEF DeletePod
    <2>3. served' => alloc = Serving /\ hook = NoHook
        BY <1>8, <2>2 DEF DeletePod
    <2>4. TypeOK'
        BY <1>0, <2>1, <2>2 DEF TypeOK
    <2> QED
        BY <1>0, <2>1, <2>3, <2>4 DEF IInv, TypeOK
<1>9. CASE Deallocate
    <2>1. /\ hook \in Requests /\ holder' = Returned(hook) /\ hook' = hook + 1
          /\ ips' \subseteq ips
          /\ UNCHANGED <<pod, phase, served, alloc, ready, faults>>
        BY <1>9 DEF Deallocate
    <2>2. /\ holder' \in [Requests -> 0..MaxPods] /\ holder'[hook] # pod
          /\ \A q \in Requests : holder'[q] \in {holder[q], Nobody}
        BY <1>0, <2>1, ReturnedLemma
    <2>3. TypeOK'
        BY <1>0, <2>1, <2>2 DEF TypeOK
    <2>4. pod \in Nat /\ pod > 0 /\ hook \in Nat
        BY <1>0, <2>1 DEF TypeOK
    <2>5. \A r \in Requests : holder'[r] <= pod
        BY <1>0, <2>2, <2>4 DEF IInv
    <2>6. served => \A r \in Requests : r < hook' => holder'[r] # pod
        BY <1>0, <2>1, <2>2, <2>4 DEF IInv
    <2> QED
        BY <1>0, <2>1, <2>3, <2>5, <2>6 DEF IInv
<1>10. CASE DeallocateFails
    <2>1. /\ hook \in Requests /\ holder' \in {holder, Returned(hook)}
          /\ hook' = Ended /\ served' = FALSE /\ faults' \in 0..MaxFaults
          /\ UNCHANGED <<pod, phase, alloc, ready, ips>>
        BY <1>0, <1>10 DEF DeallocateFails, TypeOK
    <2>2. /\ holder' \in [Requests -> 0..MaxPods]
          /\ \A q \in Requests : holder'[q] \in {holder[q], Nobody}
        BY <1>0, <2>1, ReturnedLemma DEF TypeOK
    <2>3. TypeOK'
        <3>1. ready' \in BOOLEAN /\ served' \in BOOLEAN
            BY <1>0, <2>1, <2>2 DEF TypeOK
        <3> QED
            BY <1>0, <2>1, <2>2, <3>1 DEF TypeOK
    <2>4. pod \in Nat /\ pod > 0
        BY <1>0 DEF TypeOK
    <2>5. \A r \in Requests : holder'[r] <= pod
        BY <1>0, <2>1, <2>2, <2>4 DEF IInv
    <2> QED
        BY <1>0, <2>1, <2>3, <2>5 DEF IInv
<1>11. CASE KillPod
    <2>1. /\ AllocationCutShort /\ phase' = "gone" /\ alloc' = Down
          /\ ready' = FALSE /\ hook' = Ended /\ served' = FALSE /\ faults' \in 0..MaxFaults
          /\ UNCHANGED <<pod, ips>>
        BY <1>0, <1>11 DEF KillPod, TypeOK
    <2>2. /\ holder' \in [Requests -> 0..MaxPods]
          /\ \A r \in Requests : holder'[r] = holder[r] \/ holder'[r] = pod
        BY <1>0, <2>1, CutShortLemma
    <2>3. TypeOK'
        <3>1. ready' \in BOOLEAN /\ served' \in BOOLEAN
            BY <1>0, <2>1, <2>2 DEF TypeOK
        <3> QED
            BY <1>0, <2>1, <2>2, <3>1 DEF TypeOK
    <2>4. \A r \in Requests : holder'[r] <= pod
        BY <1>0, <2>2 DEF IInv, TypeOK
    <2> QED
        BY <1>0, <2>1, <2>3, <2>4 DEF IInv
<1>12. CASE PodGone
    BY <1>12 DEF PodGone, IInv, TypeOK
<1>13. CASE CreatePod
    <2>1. /\ phase = "gone" /\ pod' = pod + 1 /\ pod' \in 1..MaxPods
          /\ phase' = "running" /\ served' = FALSE /\ hook' = NoHook /\ ips' = {}
          /\ UNCHANGED <<alloc, ready, holder, faults>>
        BY <1>0, <1>13 DEF CreatePod, TypeOK
    <2>2. TypeOK'
        <3>1. ready' \in BOOLEAN /\ served' \in BOOLEAN
            BY <1>0, <2>1 DEF TypeOK
        <3> QED
            BY <1>0, <2>1, <3>1 DEF TypeOK
    <2>3. \A r \in Requests : holder'[r] <= pod'
        BY <1>0, <2>1 DEF IInv, TypeOK
    <2>4. alloc = Down
        BY <1>0, <2>1 DEF IInv
    <2> QED
        BY <1>0, <2>1, <2>2, <2>3, <2>4 DEF IInv
<1>14. CASE UNCHANGED vars
    BY <1>14 DEF vars, IInv, TypeOK
<1> QED
    BY <1>1, <1>2, <1>3, <1>4, <1>5, <1>7, <1>8, <1>9, <1>10, <1>11,
       <1>12, <1>13, <1>14
    DEF Next

\* The inductive invariant of the allocator holds.
THEOREM Inductive == Spec => []IInv
BY InitInv, NextInv, PTL DEF Spec

\* A container that is ready and not being stopped has all addresses of its pod,
\* through restarts, failing probes and hooks that returned some of them.
THEOREM ReadyHolds == Spec => []ReadyMeansHeld
<1>1. IInv => ReadyMeansHeld
    BY RequestsAssumption
    DEF IInv, ReadyMeansHeld, Requests, Serving
<1> QED
    BY <1>1, Inductive, PTL

\* An orderly deletion returns every address, for any number of them.
THEOREM OrderlyReturns == Spec => []OrderlyPodReturnsAll
<1>1. IInv => OrderlyPodReturnsAll
    BY RequestsAssumption
    DEF IInv, OrderlyPodReturnsAll, Requests, Ended
<1> QED
    BY <1>1, Inductive, PTL

=============================================================================
