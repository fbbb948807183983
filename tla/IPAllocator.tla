---------------------------- MODULE IPAllocator ----------------------------
(***************************************************************************)
(* The IP allocator (src/dpf-utils/cmd/ipallocator) in the pods of the     *)
(* DaemonSet on one DPU: the container asks NVIPAM for the addresses of    *)
(* the pod and then waits to be stopped; its preStop hook runs the same    *)
(* program in the mode "deallocator", beside it, in the same container.    *)
(*                                                                         *)
(* An address is requested by its index in the pool of the DPU, so every   *)
(* pod on it asks for the same ones: what one pod does not return, the     *)
(* next one is refused.                                                    *)
(***************************************************************************)
EXTENDS Naturals

CONSTANTS
    N,         \* number of requests in the annotation dpf.nvidia.com/ip-requests
    AddTwice,  \* NVIPAM gives an address again to the pod that holds it
    MaxPods,   \* bound on the pods that run on the DPU one after the other
    MaxFaults  \* bound on failing calls, crashes and failing probes

ASSUME RequestsAssumption == N \in Nat \ {0}
ASSUME AddTwiceAssumption == AddTwice \in BOOLEAN
ASSUME BoundAssumption == MaxPods \in Nat \ {0} /\ MaxFaults \in Nat

VARIABLES
    pod,     \* the number of the pod; 0 is nobody
    phase,   \* of the pod: "running", "deleting" or "gone"
    alloc,   \* the allocator: its next request, or Down, Report, Serving
    hook,    \* the deallocator of preStop: its next request, or NoHook, Ended
    ready,   \* /var/run/readyz exists in the container
    ips,     \* requests with a result in the volumes of the pod
    holder,  \* the pod that holds each address
    served,  \* history: the pod was serving when its deletion began, and
             \* nothing has failed since
    faults

podVars == <<pod, phase, served>>
containerVars == <<alloc, hook, ready>>
vars == <<podVars, containerVars, ips, holder, faults>>

Requests == 1..N
Down == 0
Report == N + 1
Serving == N + 2
NoHook == 0
Ended == N + 1
Nobody == 0

TypeOK ==
    /\ pod \in 1..MaxPods
    /\ phase \in {"running", "deleting", "gone"}
    /\ alloc \in 0..Serving
    /\ hook \in 0..Ended
    /\ ready \in BOOLEAN /\ served \in BOOLEAN
    /\ ips \subseteq Requests
    /\ holder \in [Requests -> 0..MaxPods]
    /\ faults \in 0..MaxFaults

\* The first pod on a DPU whose addresses are free.
Init ==
    /\ pod = 1 /\ phase = "running" /\ served = FALSE
    /\ alloc = Down /\ hook = NoHook /\ ready = FALSE
    /\ ips = {}
    /\ holder = [r \in Requests |-> Nobody]
    /\ faults = 0

-----------------------------------------------------------------------------
Fault == faults < MaxFaults /\ faults' = faults + 1

\* The container is gone, and with it the file system of the container and what
\* kubelet runs in it. In a pod that is being deleted nothing starts it again.
ContainerEnds ==
    /\ alloc' = Down /\ ready' = FALSE
    /\ hook' = IF phase = "running" THEN NoHook ELSE Ended

\* A mutated form for the checks: after a restart the allocator goes on with the
\* first request that has no result yet.
StartContainer_Resumes ==
    /\ phase = "running" /\ alloc = Down
    /\ alloc' \in {r \in Requests \cup {Report} :
                       1..(r - 1) \subseteq ips /\ r \notin ips}
    /\ UNCHANGED <<podVars, hook, ready, ips, holder, faults>>

\* kubelet starts the container (restartPolicy Always); main reads its arguments
\* and its environment.
StartContainer ==
    /\ phase = "running" /\ alloc = Down
    /\ alloc' = 1
    /\ UNCHANGED <<podVars, hook, ready, ips, holder, faults>>

-----------------------------------------------------------------------------
(***************************************************************************)
(* runInAllocatorMode.                                                     *)
(***************************************************************************)

\* A mutated form for the checks: the volumes keep no results, and NVIPAM refuses
\* to give the same address twice.
Granted_NoCache(r) == holder[r] = Nobody

\* A result is kept in the volumes of the pod, where a restarted container finds
\* it. NVIPAM refuses what another pod holds.
Granted(r) ==
    \/ holder[r] = Nobody
    \/ holder[r] = pod /\ (r \in ips \/ AddTwice)

\* A mutated form for the checks: the result of the first request is returned.
Allocate_FirstOnly ==
    /\ alloc \in Requests /\ Granted(alloc)
    /\ holder' = [holder EXCEPT ![alloc] = pod]
    /\ ips' = ips \cup {alloc}
    /\ alloc' = Report
    /\ UNCHANGED <<podVars, hook, ready, faults>>

Allocate ==
    /\ alloc \in Requests /\ Granted(alloc)
    /\ holder' = [holder EXCEPT ![alloc] = pod]
    /\ ips' = ips \cup {alloc}
    /\ alloc' = alloc + 1
    /\ UNCHANGED <<podVars, hook, ready, faults>>

\* The error is fatal: the process exits and kubelet restarts the container.
AllocateRefused ==
    /\ alloc \in Requests /\ ~Granted(alloc)
    /\ ContainerEnds
    /\ UNCHANGED <<podVars, ips, holder, faults>>

\* A call that is cut short may have had its effect, without a result.
AllocationCutShort ==
    \/ UNCHANGED holder
    \/ /\ alloc \in Requests /\ Granted(alloc)
       /\ holder' = [holder EXCEPT ![alloc] = pod]

\* The call fails or its answer is lost, or the process is killed meanwhile.
AllocateFails ==
    /\ alloc \in Requests
    /\ Fault
    /\ AllocationCutShort
    /\ ContainerEnds
    /\ UNCHANGED <<podVars, ips>>

\* readyz.ReportReady; from here SIGINT is awaited.
ReportReady ==
    /\ alloc = Report
    /\ alloc' = Serving /\ ready' = TRUE
    /\ UNCHANGED <<podVars, hook, ips, holder, faults>>

\* ReportReady fails, SIGINT arrives, or the process is killed. None of them
\* returns an address, and none runs preStop.
Exits ==
    /\ alloc \in {Report, Serving}
    /\ Fault
    /\ ContainerEnds
    /\ served' = FALSE
    /\ UNCHANGED <<pod, phase, ips, holder>>

-----------------------------------------------------------------------------
(***************************************************************************)
(* kubelet stops the container: preStop runs in it, then it is killed.     *)
(***************************************************************************)

\* The startup probe gives up on an allocator that is not ready.
StartupProbeFails ==
    /\ phase = "running" /\ alloc \in Requests \cup {Report} /\ hook = NoHook
    /\ Fault
    /\ hook' = 1
    /\ UNCHANGED <<podVars, alloc, ready, ips, holder>>

\* preStop is only run in a container that is up.
DeletePod ==
    /\ phase = "running"
    /\ phase' = "deleting"
    /\ hook' = IF alloc = Down THEN Ended ELSE IF hook = NoHook THEN 1 ELSE hook
    /\ served' = (alloc = Serving /\ hook = NoHook)
    /\ UNCHANGED <<pod, alloc, ready, ips, holder, faults>>

\* Returning what the pod does not hold is no error.
Returned(r) ==
    IF holder[r] = pod THEN [holder EXCEPT ![r] = Nobody] ELSE holder

\* A mutated form for the checks: the last request is left out.
Deallocate_AllButLast ==
    /\ hook \in Requests
    /\ holder' = IF hook = N THEN holder ELSE Returned(hook)
    /\ ips' \in {ips, ips \ {hook}}
    /\ hook' = hook + 1
    /\ UNCHANGED <<podVars, alloc, ready, faults>>

\* runInDeallocatorMode.
Deallocate ==
    /\ hook \in Requests
    /\ holder' = Returned(hook)
    /\ ips' \in {ips, ips \ {hook}}
    /\ hook' = hook + 1
    /\ UNCHANGED <<podVars, alloc, ready, faults>>

\* The first error ends the deallocator; kubelet goes on. The call may have had
\* its effect.
DeallocateFails ==
    /\ hook \in Requests
    /\ Fault
    /\ holder' \in {holder, Returned(hook)}
    /\ hook' = Ended
    /\ served' = FALSE
    /\ UNCHANGED <<pod, phase, alloc, ready, ips>>

\* SIGTERM, which is not handled.
KillContainer ==
    /\ hook = Ended /\ alloc # Down
    /\ AllocationCutShort
    /\ ContainerEnds
    /\ UNCHANGED <<podVars, ips, faults>>

\* The grace period is over before the hook is, or the node is lost, or the pod
\* is deleted by force.
KillPod ==
    /\ phase # "gone"
    /\ Fault
    /\ AllocationCutShort
    /\ phase' = "gone"
    /\ alloc' = Down /\ ready' = FALSE /\ hook' = Ended /\ served' = FALSE
    /\ UNCHANGED <<pod, ips>>

PodGone ==
    /\ phase = "deleting" /\ alloc = Down
    /\ phase' = "gone"
    /\ UNCHANGED <<pod, served, containerVars, ips, holder, faults>>

\* The DaemonSet creates the next pod, with empty volumes.
CreatePod ==
    /\ phase = "gone" /\ pod < MaxPods
    /\ pod' = pod + 1
    /\ phase' = "running" /\ served' = FALSE
    /\ hook' = NoHook /\ ips' = {}
    /\ UNCHANGED <<alloc, ready, holder, faults>>

-----------------------------------------------------------------------------
Next ==
    \/ StartContainer \/ Allocate \/ AllocateRefused \/ AllocateFails
    \/ ReportReady \/ Exits
    \/ StartupProbeFails \/ DeletePod \/ Deallocate \/ DeallocateFails
    \/ KillContainer \/ KillPod \/ PodGone \/ CreatePod

Spec == Init /\ [][Next]_vars

-----------------------------------------------------------------------------
Holds(r) == holder[r] = pod

\* While the container is ready and is not being stopped, the pod holds all its
\* addresses and finds them in its volumes: also after a restart of a container
\* that preStop has already returned addresses of.
ReadyMeansHeld ==
    ready /\ hook = NoHook => \A r \in Requests : Holds(r) /\ r \in ips

\* A pod that was serving when its deletion began, and during whose deletion
\* nothing fails, returns all its addresses, whatever happened to it before.
OrderlyPodReturnsAll ==
    served /\ hook = Ended => \A r \in Requests : ~Holds(r)

\* The inductive invariant: each request behind the allocator is held, unless
\* the deallocator is at work; each one behind the deallocator of a pod that was
\* serving is not.
IInv ==
    /\ TypeOK
    /\ hook = NoHook => \A r \in Requests : r < alloc => Holds(r) /\ r \in ips
    /\ ready => alloc = Serving
    /\ served => /\ phase # "running" /\ alloc \in {Down, Serving}
                 /\ \A r \in Requests : r < hook => ~Holds(r)
    /\ phase = "running" /\ hook # NoHook => alloc # Down
    /\ phase # "running" => hook # NoHook
    /\ phase = "gone" => alloc = Down
    /\ \A r \in Requests : holder[r] <= pod

\* "We use preStop to deallocate the IP when the pod is deleted."
DeletedPodHoldsNothing == phase = "gone" => \A r \in Requests : ~Holds(r)

=============================================================================
