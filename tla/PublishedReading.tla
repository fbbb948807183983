-------------------------- MODULE PublishedReading --------------------------
(***************************************************************************)
(* What the provisioner promises to ovnkube, which reads the tunnel        *)
(* endpoint from Open vSwitch and the gateway and the router subnet from   *)
(* ovn_k8s.conf: both come from one reading of address and gateway, the    *)
(* endpoint is published before the file is touched, and a file that was   *)
(* written is only truncated to be written again, or lost with its pod.    *)
(***************************************************************************)
CONSTANTS Addrs, Gateways, NetOf, None, Torn

VARIABLES
    reading,  \* address and gateway, as the current pass has read them
    encap,    \* the external id ovn-encap-ip
    conf      \* ovn_k8s.conf

vars == <<reading, encap, conf>>

ConfOf(r) == [nextHop |-> r.gw, subnet |-> NetOf[r.addr]]

Init == reading = None /\ encap = None /\ conf = None

\* A pass reads address and gateway, or what was read is forgotten.
Read ==
    /\ reading' \in [addr : Addrs, gw : Gateways] \cup {None}
    /\ UNCHANGED <<encap, conf>>

PublishEndpoint ==
    /\ reading # None
    /\ encap' = reading.addr
    /\ UNCHANGED <<reading, conf>>

\* The file is opened and written behind the endpoint of the same reading.
PublishConf ==
    /\ reading # None /\ encap = reading.addr
    /\ conf' \in {Torn, ConfOf(reading)}
    /\ UNCHANGED <<reading, encap>>

\* The file lives in a volume of the pod.
LosePod == reading' = None /\ conf' = None /\ UNCHANGED encap

Next == Read \/ PublishEndpoint \/ PublishConf \/ LosePod

Spec == Init /\ [][Next]_vars

=============================================================================
