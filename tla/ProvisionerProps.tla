-------------------------- MODULE ProvisionerProps --------------------------
(***************************************************************************)
(* What the provisioner promises, and the inductive invariant it follows   *)
(* from.                                                                   *)
(***************************************************************************)
EXTENDS Provisioner

\* The host name in OVS and in the files is the one the Node shows.
IdentityPublished ==
    LET h == HostNameOf(env.labels)
    IN  /\ ovs.hostNode = h /\ ovs.hostName = h
        /\ Bootstrap => file.host = h /\ file.kubeconfig = h

\* The tunnel endpoint and the routes through br-ovn are those of the one
\* address of br-ovn and of its gateway, or of the allocation.
TunnelPublished ==
    LET a == ovs.encap
        g == IF Internal THEN env.alloc.gw ELSE env.discGw
    IN  /\ IF Internal THEN a = env.alloc.addr /\ a \in brAddrs
                       ELSE brAddrs = {a}
        /\ HostRoute(g) \in routes
        /\ NeedsVtepRoute(a) => VtepRoute(g) \in routes

ConfPublished ==
    file.conf = ConfOf(ovs.encap, IF Internal THEN env.alloc.gw ELSE env.discGw)

\* Traffic of the DPU's own addresses leaves through the out-of-band interface.
SourceRoutingPublished ==
    /\ \A n \in env.cni0 : FlannelRule(n) \in rules
    /\ \A a \in env.oob : OobRule(a) \in rules
    /\ env.defGw \in sourceRoutes

\* A pass of configure() that ends with nil, and during which nothing it reads
\* has changed, leaves everything it publishes equal to its surroundings,
\* whatever earlier passes, failed halfway, left behind.
UndisturbedPassPublishes ==
    pass = "done" /\ undisturbed =>
        IdentityPublished /\ TunnelPublished /\ ConfPublished
            /\ SourceRoutingPublished

\* However its surroundings change during a pass, a pass that ends with nil
\* leaves values that agree with each other: one host name in both external ids
\* and both files, one reading of address and gateway in the encap ip and
\* ovn_k8s.conf.
PassPublishesOneReading ==
    pass = "done" =>
        /\ ovs.hostNode = ovs.hostName
        /\ Bootstrap => file.host = ovs.hostName /\ file.kubeconfig = ovs.hostName
        /\ reading # None
        /\ ovs.encap = reading.addr
        /\ file.conf = ConfOf(reading.addr, reading.gw)

\* Once the container is ready, which lets the other containers start, each
\* thing they wait for has been published. (A file may be in the middle of being
\* rewritten by a later pass.)
ReadyMeansProvisioned ==
    ready =>
        /\ ovs.hostNode # None /\ ovs.hostName # None /\ ovs.encap # None
        /\ file.conf # None
        /\ Bootstrap => file.host # None /\ file.kubeconfig # None
        /\ Internal => dhcpCmd # None

\* dnsmasq serves the network of the tunnel endpoint that is published, with a route
\* through the gateway of the allocation where one is needed, also after restarts and
\* a new allocation.
DhcpServesThisVtep == dnsmasq => dhcpCmd = DhcpArgs(ovs.encap, env.alloc.gw)

\* Whatever fails, a gateway and a network that reach ovn_k8s.conf, and an
\* address that reaches the encap ip, were read together by one pass: never the
\* address of this pass with the gateway of an earlier one.
PublishesWhatOnePassRead ==
    [][/\ file'.conf \notin {file.conf, Torn, None} =>
              reading # None /\ file'.conf = ConfOf(reading.addr, reading.gw)
       /\ ovs'.encap # ovs.encap =>
              reading # None /\ ovs'.encap = reading.addr]_vars

\* Through every failure, crash, restart and change, what OVS and ovn_k8s.conf
\* hold is published in the way PublishedReading describes.
Promise == INSTANCE PublishedReading WITH encap <- ovs.encap, conf <- file.conf

KeepsPromise == Promise!Spec

\* What the other containers of the pod see of the process.
Seen ==
    CASE ready -> "ready"
      [] main = "down" -> "down"
      [] main = "read" -> "reading"
      [] OTHER -> "configuring"

\* To them the process behaves as ProvisionerOutline describes, whatever fails in it:
\* a start is ready only behind a pass that has written ovn_k8s.conf in the volume of
\* this pod, and nothing but the end of the pod takes the file away again. DPUPod
\* relies on no more than this.
Outline == INSTANCE ProvisionerOutline WITH prov <- Seen, conf <- file.conf # None

KeepsOutline == Outline!Spec

-----------------------------------------------------------------------------
(***************************************************************************)
(* The inductive invariant: which calls of the pass are behind it, what    *)
(* each of them has left, and what only an undisturbed pass knows.         *)
(***************************************************************************)
AfterFlannelRule == {"oobRule", "sourceRoute", "done"}
AfterConf == {"flannelRule"} \cup AfterFlannelRule
AfterEncap == {"openConf", "writeConf"} \cup AfterConf
AfterHostRoute == {"encap"} \cup AfterEncap
AfterReading == {"hostRoute"} \cup AfterHostRoute
AfterArtifacts == {"brAddrs", "netplanApply", "gateway", "vtepAddr", "vtepRoute"}
                      \cup AfterReading
AfterKubeconfig == {"chassis"} \cup AfterArtifacts
AfterHostFile == {"openKubeconfig", "writeKubeconfig"} \cup AfterKubeconfig
AfterSetHostName == {"openHostFile", "writeHostFile"} \cup AfterHostFile
AfterSetHostNode == {"setHostName"} \cup AfterSetHostName
AfterGetNode == {"setHostNode"} \cup AfterSetHostNode

\* Which goroutine may be where, and which calls belong to which mode.
ControlInv ==
    /\ main \in {"down", "read"} => ~loop /\ pass = "idle" /\ ~ready /\ ~dnsmasq
    /\ main = "configure" => ~loop /\ pass # "idle" /\ ~ready /\ ~dnsmasq
    /\ main = "dhcp" => Internal /\ ~loop /\ pass = "idle" /\ ~ready /\ ~dnsmasq
    /\ main = "report" => loop /\ ~ready
    /\ pass # "idle" /\ main # "configure" => loop
    /\ Internal => pass \notin {"brAddrs", "netplanApply", "gateway"}
    /\ ~Internal => pass \notin {"vtepAddr", "vtepRoute"} /\ ~dnsmasq

\* In internal mode the process works with the allocation it started with.
AllocInv ==
    Internal /\ main \notin {"down", "read"} =>
        /\ mem.vtep = env.alloc.addr /\ mem.gw = env.alloc.gw
        /\ reading = env.alloc

\* What the calls behind the pass have left, whatever changed around it.
PassInv ==
    /\ pass \in AfterGetNode => mem.hostName \in HostNames
    /\ pass \in AfterSetHostNode => ovs.hostNode = mem.hostName
    /\ pass \in AfterSetHostName => ovs.hostName = mem.hostName
    /\ Bootstrap /\ pass \in AfterHostFile => file.host = mem.hostName
    /\ Bootstrap /\ pass \in AfterKubeconfig => file.kubeconfig = mem.hostName
    /\ pass \in {"gateway"} \cup AfterReading => mem.vtep \in Addrs
    /\ pass \in AfterReading => /\ mem.gw \in Gateways
                                /\ reading = [addr |-> mem.vtep, gw |-> mem.gw]
    /\ pass \in AfterEncap => ovs.encap = mem.vtep
    /\ pass \in AfterConf => file.conf = ConfOf(mem.vtep, mem.gw)

\* While nothing it reads has changed, what the pass has read still holds and
UndisturbedReadings ==
    undisturbed =>
        /\ pass \in AfterGetNode => mem.hostName = HostNameOf(env.labels)
        /\ ~Internal /\ pass \in {"gateway"} \cup AfterReading =>
               brAddrs = {mem.vtep}
        /\ ~Internal /\ pass \in AfterReading => mem.gw = env.discGw
        /\ pass = "netplanApply" => Cardinality(brAddrs) # 1
        /\ Internal /\ pass \in {"vtepRoute"} \cup AfterReading =>
               mem.vtep \in brAddrs

\* the routes and rules behind the pass are those its readings call for.
UndisturbedKernel ==
    undisturbed =>
        /\ pass \in AfterReading /\ NeedsVtepRoute(mem.vtep) =>
               VtepRoute(mem.gw) \in routes
        /\ pass \in AfterHostRoute => HostRoute(mem.gw) \in routes
        /\ pass \in AfterFlannelRule =>
               \A n \in env.cni0 : FlannelRule(n) \in rules
        /\ pass \in {"sourceRoute", "done"} =>
               \A a \in env.oob : OobRule(a) \in rules
        /\ pass = "done" => env.defGw \in sourceRoutes

\* What RunOnce has left, and what no later pass takes back.
StartedInv ==
    /\ main \in {"dhcp", "report", "serve", "stop", "wait"} =>
           /\ ovs.hostNode # None /\ ovs.hostName # None /\ ovs.encap # None
           /\ file.conf # None
           /\ Bootstrap => file.host # None /\ file.kubeconfig # None
           /\ Internal => ovs.encap = mem.vtep
    /\ Internal /\ main \in {"report", "serve", "stop", "wait"} =>
           dhcpCmd # None /\ dhcpCmd = DhcpArgs(mem.vtep, mem.gw)

IInv ==
    /\ TypeOK /\ ControlInv /\ AllocInv /\ PassInv /\ StartedInv
    /\ UndisturbedReadings /\ UndisturbedKernel

-----------------------------------------------------------------------------
(***************************************************************************)
(* Liveness.                                                               *)
(***************************************************************************)

\* When the program runs, its surroundings allow a pass to succeed: for an
\* address of br-ovn it only takes a DHCP server.
SurroundingsGood ==
    /\ HostNameOf(env.labels) \in HostNames
    /\ Internal \/ (env.discGw # None /\ Cardinality(brAddrs) <= 1)
    /\ Cardinality(env.cni0) = 1 /\ Cardinality(env.oob) = 1 /\ env.defGw # None

\* A route that was added for an earlier gateway keeps the one that is needed
\* now from being added.
StaleRouteInTheWay ==
    LET g == IF Internal THEN env.alloc.gw ELSE env.discGw
    IN  \/ Refused(HostRoute(g), routes)
        \/ /\ NeedsVtepRoute(env.alloc.addr)
           /\ Refused(VtepRoute(g), routes)
        \/ SourceRouteRefused(env.defGw)

Provisionable == SurroundingsGood /\ ~StaleRouteInTheWay

\* The files hold what the surroundings show, but for the one being rewritten:
\* os.WriteFile truncates it first.
FilesSettled ==
    LET h == HostNameOf(env.labels)
        g == IF Internal THEN env.alloc.gw ELSE env.discGw
        Holds(f, value, writing) == f = value \/ (f = Torn /\ pass = writing)
    IN  /\ Bootstrap => /\ Holds(file.host, h, "writeHostFile")
                        /\ Holds(file.kubeconfig, h, "writeKubeconfig")
        /\ Holds(file.conf, ConfOf(ovs.encap, g), "writeConf")

\* What the passes maintain, also while one of them is at work.
Published ==
    /\ ovs.hostNode = HostNameOf(env.labels)
    /\ ovs.hostName = HostNameOf(env.labels)
    /\ TunnelPublished /\ SourceRoutingPublished /\ FilesSettled

\* Surroundings that stay good, with no stale route in the way, are eventually
\* published and stay published, through every failure, fatal error, restart and
\* missing lease on the way; no file stays truncated.
EventuallyPublished == <>[]Provisionable => <>[]Published

\* A failure by itself: no fault, no change, no kill by the liveness probe.
PassRefused ==
    /\ pass \in PassSteps /\ pass' = "idle" /\ UNCHANGED budgetVars
    /\ main = "configure" \/ main' = main

\* Whatever earlier passes and failures have left, an undisturbed pass in surroundings
\* that can be published is not refused, but for a lease that is still missing and for
\* a process that is told to stop: what is there already is in nobody's way.
RefusedForCause ==
    [][(PassRefused /\ undisturbed) =>
          \/ Cancelled \/ ~Provisionable
          \/ ~Internal /\ brAddrs = {}]_vars

\* What is published stays so while its surroundings stay: the passes that repeat it,
\* failures, crashes and restarts take nothing of it back, unless they cut a pass short
\* that has truncated a file. (A pass that has read what was there before a change may.)
Settled == Published /\ (pass = "idle" \/ undisturbed)
CutsFileShort ==
    pass \in {"writeHostFile", "writeKubeconfig", "writeConf"} /\ pass' = "idle"

StaysPublished ==
    [][(Settled /\ changes' = changes /\ ~CutsFileShort) => Settled']_vars

\* In internal mode a DHCP server eventually runs for good, with the allocation
\* of the pod, even if it dies or the process is told to stop.
EventuallyServes ==
    <>[]Provisionable =>
        <>[](ready /\ dnsmasq /\ dhcpCmd = DhcpArgs(env.alloc.addr, env.alloc.gw))

\* "EnsureConfiguration ensures that particular configuration is in place", also
\* when a gateway has changed since routes through it were added.
ConfigurationEnsured == <>[]SurroundingsGood => <>[]Published

\* The readinessProbe "Ensures that DHCP server is up and running".
ReadyMeansDHCPUp == ready => dnsmasq

=============================================================================
