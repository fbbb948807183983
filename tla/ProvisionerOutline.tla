------------------------- MODULE ProvisionerOutline -------------------------
(***************************************************************************)
(* What the other containers of a pod see of the provisioner: whether its  *)
(* process runs, has accepted its arguments and has reported ready, and    *)
(* whether ovn_k8s.conf is in the volume that they share.                  *)
(*                                                                         *)
(* The pod (DPUPod) is built from the actions below.  Provisioner, which   *)
(* has the passes call by call, and StartupConfig, which has the checks of *)
(* main one by one, implement them.                                        *)
(***************************************************************************)
VARIABLES
    prov,  \* "down", "reading" its arguments, "configuring" or "ready"
    conf   \* ovn_k8s.conf is in the volume of the pod

vars == <<prov, conf>>

Init == prov = "down" /\ conf = FALSE

\* kubelet starts the container.
Start == prov = "down" /\ prov' = "reading" /\ UNCHANGED conf

\* main finds its arguments, its environment and its files in order.
Accept == prov = "reading" /\ prov' = "configuring" /\ UNCHANGED conf

\* Each pass writes the file anew: that of RunOnce and the later ones.
WriteConf ==
    /\ prov \in {"configuring", "ready"}
    /\ conf' = TRUE /\ UNCHANGED prov

\* main reports ready behind RunOnce, which has written the file.
ReportReady ==
    /\ prov = "configuring" /\ conf
    /\ prov' = "ready" /\ UNCHANGED conf

\* The process ends, by klog.Fatal or by a kill; what a pass was about to write
\* may be there.
End ==
    /\ prov # "down" /\ prov' = "down"
    /\ conf' = conf \/ (prov # "reading" /\ conf' = TRUE)

\* The volume is that of the pod.
LosePod == prov' = "down" /\ conf' = FALSE

Next == Start \/ Accept \/ WriteConf \/ ReportReady \/ End \/ LosePod

Spec == Init /\ [][Next]_vars

=============================================================================
