---------------------------- MODULE Provisioner ----------------------------
(***************************************************************************)
(* The DPU CNI provisioner (src/dpf-utils/cmd/dpucniprovisioner and        *)
(* src/dpf-utils/internal/cniprovisioner/dpu): one process on every DPU    *)
(* that publishes the node's identity, its tunnel endpoint (VTEP) and its  *)
(* routing, first once (RunOnce) and then on every tick of a ticker        *)
(* (EnsureConfiguration).                                                  *)
(*                                                                         *)
(* A pass of configure() is a sequence of external calls: each call is one *)
(* action here, so that a failing call, a crash or a change of what the    *)
(* pass reads can fall between any two of them.                            *)
(*                                                                         *)
(* Two steps are refined elsewhere: the chassis annotation in              *)
(* ChassisReconcile and the cooldown of netplan in NetplanCooldown.        *)
(***************************************************************************)
EXTENDS Naturals, FiniteSets

CONSTANTS
    Mode,           \* "internal-ipam" or "external-ipam", the argument of main
    Bootstrap,      \* whether K8S_APISERVER is set (host cluster client exists)
    HostNames,      \* host names a label of the DPU's Node may carry
    Labels,         \* the label pairs the DPU's Node may show
    Addrs,          \* addresses (with mask) br-ovn may have
    Nets,           \* networks
    NetOf,          \* the network of each address
    VtepCidr,       \* the network of all the VTEPs, VTEP_CIDR
    Gateways,       \* gateways of the discovery network
    Allocs,         \* what /tmp/ips may hold in internal mode
    FlannelNets,    \* networks cni0 may have an address in
    OobAddrs,       \* addresses br-comm-ch may have
    OobGateways,    \* gateways of the default route
    None,           \* no value: unset, missing, nil
    Torn,           \* a file that was truncated and not yet written
    ExclusiveRoutes, \* a second route to a destination is refused
    Absent, Empty,  \* a label that is missing, one that is blank
    MaxChanges,     \* bound on the changes of the surroundings
    MaxFaults       \* bound on failing calls, crashes and interrupts

ASSUME ModeAssumption == Mode \in {"internal-ipam", "external-ipam"}
ASSUME BootstrapAssumption == Bootstrap \in BOOLEAN
ASSUME LabelsAssumption ==
    /\ Labels \subseteq [new : HostNames \cup {Absent, Empty},
                         legacy : HostNames \cup {Absent, Empty}]
    /\ Labels # {}
    /\ Absent \notin HostNames /\ Empty \notin HostNames /\ Absent # Empty
ASSUME AddrsAssumption == IsFiniteSet(Addrs)
ASSUME NetAssumption == NetOf \in [Addrs -> Nets] /\ VtepCidr \in Nets
ASSUME AllocsAssumption ==
    Allocs \subseteq [addr : Addrs, gw : Gateways] /\ Allocs # {}
ASSUME NoneAssumption ==
    /\ None \notin HostNames \cup Addrs \cup Gateways \cup OobGateways
    /\ None \notin [addr : Addrs, gw : Gateways]
    /\ None \notin [nextHop : Gateways, subnet : Nets]
    /\ None \notin [subnet : Nets, route : Gateways \cup {None}]
    /\ Torn \notin HostNames \cup {None}
ASSUME RoutesAssumption == ExclusiveRoutes \in BOOLEAN
ASSUME BoundAssumption == MaxChanges \in Nat /\ MaxFaults \in Nat

VARIABLES
    env,          \* what passes read: labels, alloc, discGw, cni0, oob, defGw
    brAddrs,      \* the addresses of br-ovn
    routes,       \* the routes of the provisioner through br-ovn
    rules,        \* its source routing rules, priorities 31000 and 32000
    sourceRoutes, \* the gateways of its routes in table 60
    ovs,          \* external ids of Open_vSwitch: hostNode, hostName, encap
    file,         \* files other containers read: host, kubeconfig, conf
    applied,      \* netplan apply has succeeded on this DPU
    main,         \* where the main goroutine is
    loop,         \* the goroutine of EnsureConfiguration is running
    pass,         \* the next call of the pass in progress, or "idle"
    mem,          \* p.vtepIPNet, p.gateway and the host name of the pass
    dhcpCmd,      \* p.dhcpCmd: None, or the arguments dnsmasq was started with
    dnsmasq,      \* the dnsmasq process is alive
    ready,        \* /var/run/readyz exists in the container
    reading,      \* history: the VTEP address and gateway the pass has read
    undisturbed,  \* history: nothing a pass reads has changed since it began
    changes,      \* changes of the surroundings so far
    faults        \* faults so far

hostVars == <<brAddrs, routes, rules, sourceRoutes, ovs, file, applied>>
procVars == <<main, loop, mem, dhcpCmd, dnsmasq, ready, reading>>
budgetVars == <<changes, faults>>
vars == <<env, hostVars, procVars, pass, undisturbed, budgetVars>>

-----------------------------------------------------------------------------
(***************************************************************************)
(* Values.                                                                 *)
(***************************************************************************)
Internal == Mode = "internal-ipam"

\* A legacy label counts only when the new one is missing; a blank one is an error.
HostNameOf(l) == IF l.new # Absent THEN l.new ELSE l.legacy

\* The content of ovn_k8s.conf that depends on the surroundings.
ConfOf(a, g) == [nextHop |-> g, subnet |-> NetOf[a]]

\* The host CIDR always has a route through br-ovn, the CIDR of the VTEPs only
\* in internal mode and when the VTEP's own network does not cover it.
NeedsVtepRoute(a) == Internal /\ NetOf[a] # VtepCidr
HostRoute(g) == [dst |-> "hostCIDR", gw |-> g]
VtepRoute(g) == [dst |-> "vtepCIDR", gw |-> g]

\* External: AddRoute is "ip route add", which the kernel refuses when there is
\* a route to the same destination with the same metric through another gateway.
Refused(r, present) ==
    ExclusiveRoutes /\ r \notin present /\ \E q \in present : q.dst = r.dst

FlannelRule(n) == [prio |-> 31000, from |-> n]
OobRule(a) == [prio |-> 32000, from |-> a]

\* The arguments of dnsmasq that depend on the allocation.
DhcpArgs(a, g) ==
    [subnet |-> NetOf[a], route |-> IF NeedsVtepRoute(a) THEN g ELSE None]

NoMem == [hostName |-> None, vtep |-> None, gw |-> None]

\* In internal mode there is no discovery network.
Envs ==
    [labels : Labels, alloc : Allocs,
     discGw : IF Internal THEN {None} ELSE Gateways \cup {None},
     cni0 : SUBSET FlannelNets, oob : SUBSET OobAddrs,
     defGw : OobGateways \cup {None}]

PassSteps ==
    {"getNode", "setHostNode", "setHostName", "openHostFile", "writeHostFile",
     "openKubeconfig", "writeKubeconfig", "chassis", "brAddrs", "netplanApply",
     "gateway", "vtepAddr", "vtepRoute", "hostRoute", "encap", "openConf",
     "writeConf", "flannelRule", "oobRule", "sourceRoute"}

EnvTypeOK ==
    /\ env \in Envs
    /\ undisturbed \in BOOLEAN
    /\ changes \in 0..MaxChanges
    /\ faults \in 0..MaxFaults

HostTypeOK ==
    /\ brAddrs \subseteq Addrs
    /\ routes \subseteq [dst : {"hostCIDR", "vtepCIDR"}, gw : Gateways]
    /\ rules \subseteq [prio : {31000, 32000}, from : FlannelNets \cup OobAddrs]
    /\ sourceRoutes \subseteq OobGateways
    /\ ovs \in [hostNode : HostNames \cup {None}, hostName : HostNames \cup {None},
                encap : Addrs \cup {None}]
    /\ file \in [host : HostNames \cup {None, Torn},
                 kubeconfig : HostNames \cup {None, Torn},
                 conf : [nextHop : Gateways, subnet : Nets] \cup {None, Torn}]
    /\ applied \in BOOLEAN

ProcTypeOK ==
    /\ main \in {"down", "read", "configure", "dhcp", "report", "serve", "stop",
                 "wait"}
    /\ loop \in BOOLEAN
    /\ mem \in [hostName : HostNames \cup {None}, vtep : Addrs \cup {None},
                gw : Gateways \cup {None}]
    /\ dhcpCmd \in [subnet : Nets, route : Gateways \cup {None}] \cup {None}
    /\ dnsmasq \in BOOLEAN
    /\ ready \in BOOLEAN
    /\ reading \in [addr : Addrs, gw : Gateways] \cup {None}

TypeOK ==
    EnvTypeOK /\ HostTypeOK /\ ProcTypeOK /\ pass \in PassSteps \cup {"idle", "done"}

\* The first start on a DPU where nothing was published yet.
Init ==
    /\ env \in Envs
    /\ brAddrs = {} /\ routes = {} /\ rules = {} /\ sourceRoutes = {}
    /\ ovs = [hostNode |-> None, hostName |-> None, encap |-> None]
    /\ file = [host |-> None, kubeconfig |-> None, conf |-> None]
    /\ applied = FALSE
    /\ main = "down" /\ loop = FALSE /\ pass = "idle" /\ mem = NoMem
    /\ dhcpCmd = None /\ dnsmasq = FALSE /\ ready = FALSE
    /\ reading = None /\ undisturbed = FALSE
    /\ changes = 0 /\ faults = 0

-----------------------------------------------------------------------------
(***************************************************************************)
(* The process.                                                            *)
(***************************************************************************)

\* The context given to every call of the Kubernetes clients is cancelled.
Cancelled == main \in {"stop", "wait"}

\* The process ends, by klog.Fatal, a return of main or a kill. dnsmasq and the
\* ready file go with the container.
ProcessEnds ==
    /\ main' = "down" /\ loop' = FALSE /\ mem' = NoMem
    /\ dhcpCmd' = None /\ dnsmasq' = FALSE /\ ready' = FALSE /\ reading' = None
    /\ pass' = "idle"

\* kubelet starts the container (restartPolicy Always).
StartProcess ==
    /\ main = "down"
    /\ main' = "read"
    /\ UNCHANGED <<env, hostVars, pass, loop, mem, dhcpCmd, dnsmasq, ready,
                   reading, undisturbed, budgetVars>>

\* main() reads its arguments, in internal mode the allocation too, and enters
\* RunOnce. What it refuses is in StartupConfig.
ReadArguments ==
    /\ main = "read"
    /\ main' = "configure"
    /\ pass' = "getNode"
    /\ mem' = [hostName |-> None,
               vtep |-> IF Internal THEN env.alloc.addr ELSE None,
               gw |-> IF Internal THEN env.alloc.gw ELSE None]
    /\ reading' = IF Internal THEN env.alloc ELSE None
    /\ undisturbed' = TRUE
    /\ UNCHANGED <<env, hostVars, loop, dhcpCmd, dnsmasq, ready, budgetVars>>

\* EnsureConfiguration takes a tick and calls configure(). After a cancel the
\* select may still prefer the tick.
TickerFires ==
    /\ loop /\ pass = "idle"
    /\ pass' = "getNode"
    /\ reading' = IF Internal THEN reading ELSE None
    /\ undisturbed' = TRUE
    /\ UNCHANGED <<env, hostVars, main, loop, mem, dhcpCmd, dnsmasq, ready,
                   budgetVars>>

\* configure() returns nil: RunOnce goes on to the DHCP server or returns to
\* main(), which starts the goroutine; EnsureConfiguration waits for a tick.
FinishPass ==
    /\ pass = "done"
    /\ pass' = "idle"
    /\ main' = IF main # "configure" THEN main
               ELSE IF Internal THEN "dhcp" ELSE "report"
    /\ loop' = (loop \/ (main = "configure" /\ ~Internal))
    /\ UNCHANGED <<env, hostVars, mem, dhcpCmd, dnsmasq, ready, reading,
                   undisturbed, budgetVars>>

\* startDHCPServer. The branch "already running" is unreachable: RunOnce is
\* called once per process.
StartDHCPServer ==
    /\ main = "dhcp"
    /\ dhcpCmd' = DhcpArgs(mem.vtep, mem.gw)
    /\ dnsmasq' = TRUE
    /\ main' = "report"
    /\ loop' = TRUE
    /\ UNCHANGED <<env, hostVars, pass, mem, ready, reading, undisturbed,
                   budgetVars>>

\* readyz.ReportReady; from here SIGINT is handled.
ReportReady ==
    /\ main = "report"
    /\ main' = "serve"
    /\ ready' = TRUE
    /\ UNCHANGED <<env, hostVars, pass, loop, mem, dhcpCmd, dnsmasq, reading,
                   undisturbed, budgetVars>>

\* An argument is refused, startDHCPServer or ReportReady fails, and main() calls
\* klog.Fatal.
MainStepFails ==
    /\ main \in {"read", "dhcp", "report"}
    /\ faults < MaxFaults /\ faults' = faults + 1
    /\ ProcessEnds
    /\ UNCHANGED <<env, hostVars, undisturbed, changes>>

\* SIGINT: cancel() of the context. A pass in flight goes on.
Interrupt ==
    /\ main = "serve"
    /\ faults < MaxFaults /\ faults' = faults + 1
    /\ main' = "stop"
    /\ UNCHANGED <<env, hostVars, pass, loop, mem, dhcpCmd, dnsmasq, ready,
                   reading, undisturbed, changes>>

\* provisioner.Stop(): the DHCP server is signalled in internal mode.
Stop ==
    /\ main = "stop"
    /\ main' = "wait"
    /\ dnsmasq' = FALSE
    /\ UNCHANGED <<env, hostVars, pass, loop, mem, dhcpCmd, ready, reading,
                   undisturbed, budgetVars>>

\* EnsureConfiguration sees that the context is done.
LoopReturns ==
    /\ loop /\ Cancelled /\ pass = "idle"
    /\ loop' = FALSE
    /\ UNCHANGED <<env, hostVars, pass, main, mem, dhcpCmd, dnsmasq, ready,
                   reading, undisturbed, budgetVars>>

\* wg.Wait() is over and main() returns.
MainReturns ==
    /\ main = "wait" /\ ~loop
    /\ ProcessEnds
    /\ UNCHANGED <<env, hostVars, undisturbed, budgetVars>>

\* The process is killed: SIGTERM of kubelet, which is not handled, or a crash.
Crash ==
    /\ main # "down"
    /\ faults < MaxFaults /\ faults' = faults + 1
    /\ ProcessEnds
    /\ UNCHANGED <<env, hostVars, undisturbed, changes>>

\* dnsmasq exits by itself. Nothing in the provisioner waits for it.
DnsmasqDies ==
    /\ dnsmasq
    /\ faults < MaxFaults /\ faults' = faults + 1
    /\ dnsmasq' = FALSE
    /\ UNCHANGED <<env, hostVars, pass, main, loop, mem, dhcpCmd, ready, reading,
                   undisturbed, changes>>

\* A mutated form for the checks: the condition of the probe is inverted.
LivenessProbeFails_OtherMode ==
    /\ ~Internal /\ main = "serve" /\ ~dnsmasq
    /\ ProcessEnds
    /\ UNCHANGED <<env, hostVars, undisturbed, budgetVars>>

\* The livenessProbe of internal mode: no server on port 67, kubelet restarts.
LivenessProbeFails ==
    /\ Internal /\ main = "serve" /\ ~dnsmasq
    /\ ProcessEnds
    /\ UNCHANGED <<env, hostVars, undisturbed, budgetVars>>

-----------------------------------------------------------------------------
(***************************************************************************)
(* configure(), call by call.                                              *)
(***************************************************************************)

\* A mutated form for the checks: RunOnce logs the error as the loop does.
Abort_Logged ==
    /\ pass' = "idle"
    /\ main' = IF main = "configure" THEN "report" ELSE main
    /\ loop' = TRUE
    /\ UNCHANGED <<mem, dhcpCmd, dnsmasq, ready, reading>>

\* A mutated form for the checks: the loop returns on an error.
Abort_ReturnsLoop ==
    \/ main = "configure" /\ ProcessEnds
    \/ /\ main # "configure"
       /\ pass' = "idle" /\ loop' = FALSE
       /\ UNCHANGED <<main, mem, dhcpCmd, dnsmasq, ready, reading>>

\* configure() returns an error: fatal in RunOnce, logged in the loop.
Abort ==
    \/ main = "configure" /\ ProcessEnds
    \/ main # "configure" /\ pass' = "idle" /\ UNCHANGED procVars

\* A call of the pass succeeds, or finds that the pass cannot go on.
Advance(from, to) ==
    /\ pass = from /\ pass' = to
    /\ UNCHANGED <<env, main, loop, dhcpCmd, dnsmasq, ready, undisturbed,
                   budgetVars>>

Reject(at) ==
    /\ pass = at /\ Abort
    /\ UNCHANGED <<env, undisturbed, budgetVars>>

\* Any call may fail without effect. A failed write leaves the truncated file.
PassStepFails ==
    /\ pass \in PassSteps
    /\ faults < MaxFaults /\ faults' = faults + 1
    /\ Abort
    /\ UNCHANGED <<env, hostVars, undisturbed, changes>>

\* findAndSetKubernetesHostNameInOVS reads the labels of the Node.
GetHostName ==
    \/ /\ ~Cancelled /\ HostNameOf(env.labels) \in HostNames
       /\ Advance("getNode", "setHostNode")
       /\ mem' = [mem EXCEPT !.hostName = HostNameOf(env.labels)]
       /\ UNCHANGED <<hostVars, reading>>
    \/ /\ Cancelled \/ HostNameOf(env.labels) \notin HostNames
       /\ Reject("getNode")
       /\ UNCHANGED hostVars

SetKubernetesHostNodeName ==
    /\ Advance("setHostNode", "setHostName")
    /\ ovs' = [ovs EXCEPT !.hostNode = mem.hostName]
    /\ UNCHANGED <<brAddrs, routes, rules, sourceRoutes, file, applied, mem,
                   reading>>

\* The steps of writeHostIdentityBootstrapArtifacts and of
\* reconcileHostNodeChassisID are there only with a host cluster.
AfterIdentity == IF Internal THEN "vtepAddr" ELSE "brAddrs"

SetHostName ==
    /\ Advance("setHostName", IF Bootstrap THEN "openHostFile" ELSE AfterIdentity)
    /\ ovs' = [ovs EXCEPT !.hostName = mem.hostName]
    /\ UNCHANGED <<brAddrs, routes, rules, sourceRoutes, file, applied, mem,
                   reading>>

\* os.WriteFile: open with O_TRUNC, then write.
FileStep(from, to, newFile) ==
    /\ Advance(from, to)
    /\ file' = newFile
    /\ UNCHANGED <<brAddrs, routes, rules, sourceRoutes, ovs, applied, mem,
                   reading>>

WriteHostNodeNameFile ==
    \/ FileStep("openHostFile", "writeHostFile", [file EXCEPT !.host = Torn])
    \/ FileStep("writeHostFile", "openKubeconfig",
                [file EXCEPT !.host = mem.hostName])

WriteBootstrapKubeconfig ==
    \/ FileStep("openKubeconfig", "writeKubeconfig",
                [file EXCEPT !.kubeconfig = Torn])
    \/ FileStep("writeKubeconfig", "chassis",
                [file EXCEPT !.kubeconfig = mem.hostName])

\* The annotation itself is in ChassisReconcile; both its calls take p.ctx.
ReconcileChassisID ==
    \/ /\ ~Cancelled
       /\ Advance("chassis", AfterIdentity)
       /\ UNCHANGED <<hostVars, mem, reading>>
    \/ /\ Cancelled
       /\ Reject("chassis")
       /\ UNCHANGED hostVars

\* A mutated form for the checks: the address is taken where there is one at all.
ReadBrOvnAddrs_Any ==
    \/ \E a \in brAddrs :
           /\ Advance("brAddrs", "gateway")
           /\ mem' = [mem EXCEPT !.vtep = a]
           /\ UNCHANGED <<hostVars, reading>>
    \/ /\ brAddrs = {}
       /\ Advance("brAddrs", "netplanApply")
       /\ UNCHANGED <<hostVars, mem, reading>>

\* configureBROVN: write the netplan file, read the addresses of br-ovn.
ReadBrOvnAddrs ==
    \/ \E a \in Addrs :
           /\ brAddrs = {a}
           /\ Advance("brAddrs", "gateway")
           /\ mem' = [mem EXCEPT !.vtep = a]
           /\ UNCHANGED <<hostVars, reading>>
    \/ /\ Cardinality(brAddrs) # 1
       /\ Advance("brAddrs", "netplanApply")
       /\ UNCHANGED <<hostVars, mem, reading>>

\* runNetplanApply: the command succeeds, which may be as far as the call gets; or
\* it is run again or, only after an earlier success, skipped. (The cooldown is in
\* NetplanCooldown; a clock within the cooldown of 1970, which skips the command
\* without a success, is left to it.) The pass ends with an error in any case.
RunNetplanApply ==
    \/ /\ pass = "netplanApply" /\ ~applied
       /\ applied' = TRUE
       /\ UNCHANGED <<env, brAddrs, routes, rules, sourceRoutes, ovs, file, procVars,
                      pass, undisturbed, budgetVars>>
    \/ /\ applied
       /\ Reject("netplanApply")
       /\ UNCHANGED hostVars

\* A mutated form for the checks: a missing gateway is logged, not returned.
ReadGateway_Ignored ==
    \/ /\ env.discGw # None
       /\ Advance("gateway", "hostRoute")
       /\ mem' = [mem EXCEPT !.gw = env.discGw]
       /\ reading' = [addr |-> mem.vtep, gw |-> env.discGw]
       /\ UNCHANGED hostVars
    \/ /\ env.discGw = None /\ mem.gw # None
       /\ Advance("gateway", "hostRoute")
       /\ UNCHANGED <<hostVars, mem, reading>>

\* GetGateway of the discovery network. p.vtepIPNet is already the new one when
\* this fails.
ReadGateway ==
    \/ /\ env.discGw # None
       /\ Advance("gateway", "hostRoute")
       /\ mem' = [mem EXCEPT !.gw = env.discGw]
       /\ reading' = [addr |-> mem.vtep, gw |-> env.discGw]
       /\ UNCHANGED hostVars
    \/ /\ env.discGw = None
       /\ Reject("gateway")
       /\ UNCHANGED hostVars

\* A mutated form for the checks: any address will do.
SetVtepAddr_AnyAddr ==
    /\ Advance("vtepAddr", "vtepRoute")
    /\ brAddrs' = IF brAddrs = {} THEN {mem.vtep} ELSE brAddrs
    /\ UNCHANGED <<routes, rules, sourceRoutes, ovs, file, applied, mem, reading>>

\* setLinkIPAddressIfNotSet(br-ovn) in internal mode.
SetVtepAddr ==
    /\ Advance("vtepAddr", "vtepRoute")
    /\ brAddrs' = brAddrs \cup {mem.vtep}
    /\ UNCHANGED <<routes, rules, sourceRoutes, ovs, file, applied, mem, reading>>

\* A mutated form for the checks: the route is added without a look at what there is.
RouteStep_Add(from, to, r) ==
    \/ /\ r \notin routes /\ ~Refused(r, routes)
       /\ Advance(from, to)
       /\ routes' = routes \cup {r}
       /\ UNCHANGED <<brAddrs, rules, sourceRoutes, ovs, file, applied, mem,
                      reading>>
    \/ /\ r \in routes \/ Refused(r, routes)
       /\ Reject(from)
       /\ UNCHANGED hostVars

\* addRouteIfNotExists for a route through br-ovn. Nothing removes the route of
\* an earlier gateway.
RouteStep(from, to, r) ==
    \/ /\ ~Refused(r, routes)
       /\ Advance(from, to)
       /\ routes' = routes \cup {r}
       /\ UNCHANGED <<brAddrs, rules, sourceRoutes, ovs, file, applied, mem,
                      reading>>
    \/ /\ Refused(r, routes)
       /\ Reject(from)
       /\ UNCHANGED hostVars

\* SetLinkUp, then the route to the other VTEPs where it is needed.
AddVtepRoute ==
    /\ pass = "vtepRoute"
    /\ \/ /\ NeedsVtepRoute(mem.vtep)
          /\ RouteStep("vtepRoute", "hostRoute", VtepRoute(mem.gw))
       \/ /\ ~NeedsVtepRoute(mem.vtep)
          /\ Advance("vtepRoute", "hostRoute")
          /\ UNCHANGED <<hostVars, mem, reading>>

\* A mutated form for the checks: the routes of br-ovn are replaced.
AddHostRoute_Replace ==
    /\ Advance("hostRoute", "encap")
    /\ routes' = {HostRoute(mem.gw)}
    /\ UNCHANGED <<brAddrs, rules, sourceRoutes, ovs, file, applied, mem, reading>>

\* The route to the hosts, in both modes.
AddHostRoute == RouteStep("hostRoute", "encap", HostRoute(mem.gw))

\* A mutated form for the checks: "if not set", as for addresses and routes.
SetOVNEncapIP_IfUnset ==
    /\ Advance("encap", "openConf")
    /\ ovs' = IF ovs.encap = None THEN [ovs EXCEPT !.encap = mem.vtep] ELSE ovs
    /\ UNCHANGED <<brAddrs, routes, rules, sourceRoutes, file, applied, mem,
                   reading>>

\* The external id ovn-encap-ip is set on every pass.
SetOVNEncapIP ==
    /\ Advance("encap", "openConf")
    /\ ovs' = [ovs EXCEPT !.encap = mem.vtep]
    /\ UNCHANGED <<brAddrs, routes, rules, sourceRoutes, file, applied, mem,
                   reading>>

WriteFilesForOVN ==
    \/ FileStep("openConf", "writeConf", [file EXCEPT !.conf = Torn])
    \/ FileStep("writeConf", "flannelRule",
                [file EXCEPT !.conf = ConfOf(mem.vtep, mem.gw)])

RuleStep(from, to, newRules) ==
    /\ Advance(from, to)
    /\ rules' = newRules
    /\ UNCHANGED <<brAddrs, routes, sourceRoutes, ovs, file, applied, mem, reading>>

\* configureSymmetricRouting: rules and routes are added, never removed.
AddFlannelRule ==
    \/ \E n \in FlannelNets :
           /\ env.cni0 = {n}
           /\ RuleStep("flannelRule", "oobRule", rules \cup {FlannelRule(n)})
    \/ /\ Cardinality(env.cni0) # 1
       /\ Reject("flannelRule")
       /\ UNCHANGED hostVars

AddOobRule ==
    \/ \E a \in OobAddrs :
           /\ env.oob = {a}
           /\ RuleStep("oobRule", "sourceRoute", rules \cup {OobRule(a)})
    \/ /\ Cardinality(env.oob) # 1
       /\ Reject("oobRule")
       /\ UNCHANGED hostVars

\* The same for the route in table 60: another default gateway is refused.
SourceRouteRefused(g) ==
    ExclusiveRoutes /\ g \notin sourceRoutes /\ sourceRoutes # {}

AddSourceRoute ==
    \/ /\ env.defGw # None /\ ~SourceRouteRefused(env.defGw)
       /\ Advance("sourceRoute", "done")
       /\ sourceRoutes' = sourceRoutes \cup {env.defGw}
       /\ UNCHANGED <<brAddrs, routes, rules, ovs, file, applied, mem, reading>>
    \/ /\ env.defGw = None \/ SourceRouteRefused(env.defGw)
       /\ Reject("sourceRoute")
       /\ UNCHANGED hostVars

PassStep ==
    \/ GetHostName \/ SetKubernetesHostNodeName \/ SetHostName
    \/ WriteHostNodeNameFile \/ WriteBootstrapKubeconfig \/ ReconcileChassisID
    \/ ReadBrOvnAddrs \/ RunNetplanApply \/ ReadGateway
    \/ SetVtepAddr \/ AddVtepRoute \/ AddHostRoute \/ SetOVNEncapIP
    \/ WriteFilesForOVN
    \/ AddFlannelRule \/ AddOobRule \/ AddSourceRoute

-----------------------------------------------------------------------------
(***************************************************************************)
(* The surroundings.                                                       *)
(***************************************************************************)
Disturb ==
    /\ changes < MaxChanges /\ changes' = changes + 1
    /\ undisturbed' = FALSE
    /\ UNCHANGED faults

\* Labels, gateways and the addresses of the other interfaces change.
SystemChanges ==
    /\ Disturb
    /\ \/ \E l \in Labels : env' = [env EXCEPT !.labels = l]
       \/ \E n \in SUBSET FlannelNets : env' = [env EXCEPT !.cni0 = n]
       \/ \E a \in SUBSET OobAddrs : env' = [env EXCEPT !.oob = a]
       \/ \E g \in OobGateways \cup {None} : env' = [env EXCEPT !.defGw = g]
       \/ \E g \in Gateways \cup {None} :
              ~Internal /\ env' = [env EXCEPT !.discGw = g]
    /\ UNCHANGED <<hostVars, procVars, pass>>

\* The external DHCP server renumbers br-ovn. The kernel flushes the routes of
\* an interface that loses its last address.
RenumberBrOvn ==
    /\ ~Internal
    /\ Disturb
    /\ \E as \in SUBSET Addrs :
           /\ brAddrs' = as
           /\ routes' = IF as \cap brAddrs = {} THEN {} ELSE routes
    /\ UNCHANGED <<env, rules, sourceRoutes, ovs, file, applied, procVars, pass>>

\* After netplan apply, br-ovn gets a lease.
DHCPAssigns ==
    /\ ~Internal /\ applied /\ brAddrs = {}
    /\ \E a \in Addrs : brAddrs' = {a}
    /\ undisturbed' = FALSE
    /\ UNCHANGED <<env, routes, rules, sourceRoutes, ovs, file, applied, procVars,
                   pass, budgetVars>>

\* A new pod on the same DPU: emptyDir volumes start empty and the IP allocator
\* has a new allocation; hostPath files, OVS and the kernel keep what they have.
RecreatePod ==
    /\ Disturb
    /\ ProcessEnds
    /\ file' = [file EXCEPT !.kubeconfig = None, !.conf = None]
    /\ \E a \in Allocs : env' = [env EXCEPT !.alloc = a]
    /\ UNCHANGED <<brAddrs, routes, rules, sourceRoutes, ovs, applied>>

-----------------------------------------------------------------------------
Next ==
    \/ StartProcess \/ ReadArguments
    \/ TickerFires \/ FinishPass \/ StartDHCPServer \/ ReportReady
    \/ MainStepFails \/ Interrupt \/ Stop \/ LoopReturns \/ MainReturns \/ Crash
    \/ DnsmasqDies \/ LivenessProbeFails
    \/ PassStep \/ PassStepFails
    \/ SystemChanges \/ RenumberBrOvn \/ DHCPAssigns \/ RecreatePod

\* Calls return, the ticker ticks, kubelet restarts and probes, a DHCP server
\* answers. The select of EnsureConfiguration is random between a tick and a
\* cancelled context, hence strong fairness for LoopReturns. No fairness for
\* faults and changes.
Fairness ==
    /\ WF_vars(StartProcess) /\ WF_vars(ReadArguments)
    /\ WF_vars(TickerFires) /\ WF_vars(PassStep)
    /\ WF_vars(FinishPass) /\ WF_vars(StartDHCPServer) /\ WF_vars(ReportReady)
    /\ WF_vars(Stop) /\ SF_vars(LoopReturns) /\ WF_vars(MainReturns)
    /\ WF_vars(LivenessProbeFails) /\ WF_vars(DHCPAssigns)

Spec == Init /\ [][Next]_vars
FairSpec == Spec /\ Fairness

=============================================================================
