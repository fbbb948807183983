--------------------------- MODULE StartupConfig ---------------------------
(***************************************************************************)
(* What the provisioner's main (src/dpf-utils/cmd/dpucniprovisioner) does  *)
(* with its argument, its environment and the files of its pod before and  *)
(* after the first pass: what it refuses, what it publishes, and what it   *)
(* starts dnsmasq with.  The passes themselves are those of Provisioner;   *)
(* here one is a single step that writes ovn_k8s.conf.                     *)
(*                                                                         *)
(* The environment of a container changes only with its pod, when the      *)
(* values of the chart change; its files come and go meanwhile.            *)
(***************************************************************************)
EXTENDS Integers

CONSTANTS
    Envs,      \* the environments that the values of the chart may give
    None,      \* nothing written, not running, not set
    MaxInt,    \* the largest int of the program
    MaxPods,   \* bound on the pods that follow one another
    MaxFaults  \* bound on failing passes, crashes and files that vanish

\* A text is what an environment variable holds: nothing, only spaces, a number
\* with or without spaces around it, or something else.
Kinds == {"unset", "blank", "junk", "padded", "number"}
Ints == (-MaxInt - 1)..MaxInt
Texts == [kind : Kinds, value : Ints]

\* What is required and of which only that matters: settings that are parsed, the
\* tools of OVS in the image, and the service account with the address of the API.
Settings == {"NODE_NAME", "VTEP_CIDR", "HOST_CIDR", "GATEWAY_DISCOVERY_NETWORK"}
Required == Settings \cup {"OVS_TOOLS", "SERVICE_ACCOUNT"}

ASSUME IntAssumption == MaxInt \in Nat /\ MaxInt > 9216
ASSUME EnvsAssumption ==
    /\ Envs # {}
    /\ \A e \in Envs :
           /\ e.bad \subseteq Required
           /\ e.mtu \in Texts /\ e.renew \in Texts /\ e.dur \in Texts
           /\ e.ns \in BOOLEAN /\ e.apiServer \in BOOLEAN
ASSUME NoneAssumption ==
    /\ None \notin Ints /\ None \notin [renew : Ints, dur : Ints]
    /\ None \notin [lease : [renew : Ints, dur : Ints] \cup {None}, ns : BOOLEAN]
ASSUME BoundAssumption == MaxPods \in Nat \ {0} /\ MaxFaults \in Nat

VARIABLES
    env,     \* of the pod: mode, bad, mtu, renew, dur, ns, apiServer
    files,   \* of the pod: allocations "vtep" and "pf", "token" and "ca"
    at,      \* where main is, "down" or "fatal"
    lease,   \* p.dpuNodeLease*: None, or renew interval and duration
    ns,      \* p.writeOVNKConfigNamespaceToOVNKConf
    conf,    \* ovn_k8s.conf in the pod's volume: None, or lease and ns
    dhcp,    \* the MTU that dnsmasq, while it runs, gives to the host
    ready,   \* /var/run/readyz exists in the container
    pods,    \* pods so far
    faults   \* faults so far

setVars == <<lease, ns>>
outVars == <<conf, dhcp, ready>>
podVars == <<env, pods>>
vars == <<podVars, files, at, setVars, outVars, faults>>

Checks ==
    {"mode", "node", "vtep", "pf", "mtu", "discovery", "vtepCidr", "hostCidr",
     "ovsClient", "clientset", "lease", "namespace", "hostClient"}
Places == Checks \cup {"runOnce", "dhcp", "report", "serving", "down", "fatal"}
AllFiles == {"vtep", "pf", "token", "ca"}

LeaseBlocks == [renew : Ints, dur : Ints]

TypeOK ==
    /\ env \in Envs /\ files \subseteq AllFiles
    /\ at \in Places
    /\ lease \in LeaseBlocks \cup {None} /\ ns \in BOOLEAN
    /\ conf \in [lease : LeaseBlocks \cup {None}, ns : BOOLEAN] \cup {None}
    /\ dhcp \in Ints \cup {None}
    /\ ready \in BOOLEAN
    /\ pods \in 1..MaxPods /\ faults \in 0..MaxFaults

Init ==
    /\ env \in Envs /\ files = {}
    /\ at = "down" /\ lease = None /\ ns = FALSE
    /\ conf = None /\ dhcp = None /\ ready = FALSE
    /\ pods = 1 /\ faults = 0

-----------------------------------------------------------------------------
Internal == env.mode = "internal-ipam"

\* strings.TrimSpace, then strconv.Atoi, which takes no spaces.
TrimSpace(t) ==
    [t EXCEPT !.kind = CASE @ = "padded" -> "number"
                         [] @ = "blank" -> "unset"
                         [] OTHER -> @]
IsNumber(t) == t.kind = "number"

\* int wraps around.
Wrap(n) == IF n > MaxInt THEN n - 2 * (MaxInt + 1) ELSE n

\* main goes on to the next of its checks, or ends with klog.Fatal.
Check(here, ok, next) ==
    /\ at = here
    /\ at' = IF ok THEN next ELSE "fatal"
    /\ UNCHANGED <<podVars, files, outVars, faults>>

\* kubelet starts the container again after any exit (restartPolicy Always).
StartContainer ==
    /\ at \in {"down", "fatal"}
    /\ at' = "mode"
    /\ lease' = None /\ ns' = FALSE /\ dhcp' = None /\ ready' = FALSE
    /\ UNCHANGED <<podVars, files, conf, faults>>

ParseMode ==
    /\ Check("mode", env.mode \in {"internal-ipam", "external-ipam"}, "node")
    /\ UNCHANGED setVars

NodeName ==
    /\ Check("node", "NODE_NAME" \notin env.bad,
             IF Internal THEN "vtep" ELSE "discovery")
    /\ UNCHANGED setVars

\* The files the IP allocator has written, with exactly one result each.
GetInfoFromVTEPIPAllocation ==
    Check("vtep", "vtep" \in files, "pf") /\ UNCHANGED setVars
GetPFIP ==
    Check("pf", "pf" \in files, "mtu") /\ UNCHANGED setVars

\* Only 0 is refused.
GetOVNMTU ==
    /\ Check("mtu", IsNumber(env.mtu) /\ env.mtu.value # 0, "vtepCidr")
    /\ UNCHANGED setVars

GetGatewayDiscoveryNetwork ==
    /\ Check("discovery", "GATEWAY_DISCOVERY_NETWORK" \notin env.bad, "vtepCidr")
    /\ UNCHANGED setVars
GetVTEPCIDR ==
    Check("vtepCidr", "VTEP_CIDR" \notin env.bad, "hostCidr") /\ UNCHANGED setVars
GetHostCIDR ==
    Check("hostCidr", "HOST_CIDR" \notin env.bad, "ovsClient") /\ UNCHANGED setVars

\* ovs-vsctl and ovs-appctl are in the path.
NewOvsClient ==
    Check("ovsClient", "OVS_TOOLS" \notin env.bad, "clientset") /\ UNCHANGED setVars

\* InClusterConfig and NewForConfig, of the DPU cluster.
NewClientset ==
    Check("clientset", "SERVICE_ACCOUNT" \notin env.bad, "lease") /\ UNCHANGED setVars

-----------------------------------------------------------------------------
(***************************************************************************)
(* The lease of the DPU's node, the namespace and the host cluster.        *)
(***************************************************************************)
DefaultDuration == 40

\* A mutated form for the checks: without a duration there is none.
LeaseDuration_NoDefault(t) == IF t.kind = "unset" THEN 0 ELSE t.value

LeaseDuration(t) == IF t.kind = "unset" THEN DefaultDuration ELSE t.value

\* A mutated form for the checks: only a duration that is given is compared.
LeaseAccepted_Default(renew, dur) ==
    /\ IsNumber(renew) /\ renew.value > 0
    /\ \/ dur.kind = "unset"
       \/ IsNumber(dur) /\ dur.value > 0 /\ dur.value > renew.value

LeaseAccepted(renew, dur) ==
    /\ IsNumber(renew) /\ (dur.kind = "unset" \/ IsNumber(dur))
    /\ renew.value > 0 /\ LeaseDuration(dur) > 0
    /\ LeaseDuration(dur) > renew.value

\* parseDPUNodeLeaseFromEnv and SetDPUNodeLeaseForOVNConf: no renew interval, no
\* lease; a duration that is not given is 40.
ParseLease ==
    LET renew == TrimSpace(env.renew)
        dur == TrimSpace(env.dur)
        ok == LeaseAccepted(renew, dur)
    IN  /\ Check("lease", renew.kind = "unset" \/ ok, "namespace")
        /\ lease' = IF renew.kind # "unset" /\ ok
                    THEN [renew |-> renew.value, dur |-> LeaseDuration(dur)]
                    ELSE lease
        /\ UNCHANGED ns

SetOVNConfigNamespace ==
    /\ Check("namespace", TRUE, IF env.apiServer THEN "hostClient" ELSE "runOnce")
    /\ ns' = env.ns
    /\ UNCHANGED lease

NewHostClusterClient ==
    Check("hostClient", {"token", "ca"} \subseteq files, "runOnce")
        /\ UNCHANGED setVars

-----------------------------------------------------------------------------
(***************************************************************************)
(* RunOnce, and what follows it.                                           *)
(***************************************************************************)
Fault == faults < MaxFaults /\ faults' = faults + 1

\* writeFilesForOVN, the part of ovn_k8s.conf that comes from the environment.
ConfOf == [lease |-> lease, ns |-> ns]

Configure ==
    /\ at = "runOnce"
    /\ conf' = ConfOf
    /\ at' = IF Internal THEN "dhcp" ELSE "report"
    /\ UNCHANGED <<podVars, files, setVars, dhcp, ready, faults>>

\* The first pass fails, before or after it writes ovn_k8s.conf.
ConfigureFails ==
    /\ at = "runOnce" /\ Fault
    /\ conf' \in {conf, ConfOf}
    /\ at' = "fatal"
    /\ UNCHANGED <<podVars, files, setVars, dhcp, ready>>

GeneveHeader == 60
MaxMTUSize == 9216
PfMTU == Wrap(env.mtu.value + GeneveHeader)

StartDHCPServer ==
    /\ at = "dhcp"
    /\ IF PfMTU = GeneveHeader \/ PfMTU > MaxMTUSize
       THEN at' = "fatal" /\ UNCHANGED dhcp
       ELSE at' = "report" /\ dhcp' = PfMTU
    /\ UNCHANGED <<podVars, files, setVars, conf, ready, faults>>

ReportReady ==
    /\ at = "report"
    /\ at' = "serving" /\ ready' = TRUE
    /\ UNCHANGED <<podVars, files, setVars, conf, dhcp, faults>>

\* A later pass, from EnsureConfiguration; one that fails is only logged.
LaterPass ==
    /\ at = "serving"
    /\ conf' = ConfOf
    /\ UNCHANGED <<podVars, files, at, setVars, dhcp, ready, faults>>

\* A mutated form for the checks: readyz is in a volume of the pod.
Crash_ReadyInVolume ==
    /\ at # "down" /\ Fault
    /\ at' = "down" /\ dhcp' = None
    /\ UNCHANGED <<podVars, files, setVars, conf, ready>>

\* The container dies, and dnsmasq with it; also when ReportReady fails.
Crash ==
    /\ at # "down" /\ Fault
    /\ at' = "down" /\ dhcp' = None /\ ready' = FALSE
    /\ UNCHANGED <<podVars, files, setVars, conf>>

\* The IP allocator writes its results, the kubelet mounts the secret.
FileAppears ==
    /\ \E f \in AllFiles \ files : files' = files \cup {f}
    /\ UNCHANGED <<podVars, at, setVars, outVars, faults>>

\* The IP allocator's preStop, when its startup probe gives up.
AllocationReturned ==
    /\ Fault
    /\ \E f \in files \cap {"vtep", "pf"} : files' = files \ {f}
    /\ UNCHANGED <<podVars, at, setVars, outVars>>

\* A mutated form for the checks: ovn_k8s.conf is on the host.
Rollout_ConfOnHost ==
    /\ pods < MaxPods /\ pods' = pods + 1
    /\ env' \in Envs
    /\ files' = {} /\ at' = "down"
    /\ dhcp' = None /\ ready' = FALSE
    /\ UNCHANGED <<setVars, conf, faults>>

\* The values of the chart change and the pod is replaced; its volumes are new.
Rollout ==
    /\ pods < MaxPods /\ pods' = pods + 1
    /\ env' \in Envs
    /\ files' = {} /\ at' = "down"
    /\ conf' = None /\ dhcp' = None /\ ready' = FALSE
    /\ UNCHANGED <<setVars, faults>>

-----------------------------------------------------------------------------
Main ==
    \/ StartContainer \/ ParseMode \/ NodeName
    \/ GetInfoFromVTEPIPAllocation \/ GetPFIP \/ GetOVNMTU
    \/ GetGatewayDiscoveryNetwork \/ GetVTEPCIDR \/ GetHostCIDR
    \/ NewOvsClient \/ NewClientset
    \/ ParseLease \/ SetOVNConfigNamespace \/ NewHostClusterClient
    \/ Configure \/ StartDHCPServer \/ ReportReady \/ LaterPass

Next ==
    \/ Main \/ ConfigureFails \/ Crash
    \/ FileAppears \/ AllocationReturned \/ Rollout

Spec == Init /\ [][Next]_vars

\* kubelet restarts what has ended, and the program goes on.
FairSpec == Spec /\ WF_vars(Main)

-----------------------------------------------------------------------------
(***************************************************************************)
(* What main accepts, put as a condition on the values and not as its      *)
(* order of checks: a renew interval of 0 is refused and a negative MTU is *)
(* not. What the documents say of both is below (Described).               *)
(***************************************************************************)
Number(t) == t.kind \in {"padded", "number"}
NotGiven(t) == t.kind \in {"unset", "blank"}
Duration(e) == IF NotGiven(e.dur) THEN 40 ELSE e.dur.value

LeaseValid(e) ==
    /\ Number(e.renew) /\ (NotGiven(e.dur) \/ Number(e.dur))
    /\ 0 < e.renew.value /\ e.renew.value < Duration(e)

LeaseAcceptable(e) == NotGiven(e.renew) \/ LeaseValid(e)

ModeAcceptable(e) == e.mode \in {"internal-ipam", "external-ipam"}

IpamAcceptable(e) ==
    /\ e.mode = "internal-ipam" => e.mtu.kind = "number" /\ e.mtu.value # 0
    /\ e.mode = "external-ipam" => "GATEWAY_DISCOVERY_NETWORK" \notin e.bad

Acceptable(e) ==
    /\ ModeAcceptable(e) /\ IpamAcceptable(e) /\ LeaseAcceptable(e)
    /\ e.bad \subseteq {"GATEWAY_DISCOVERY_NETWORK"}

LeaseOf(e) ==
    IF NotGiven(e.renew) THEN None ELSE
        [renew |-> e.renew.value, dur |-> Duration(e)]

\* ovn_k8s.conf in a pod's volume says what the environment of this pod says, and
\* an environment with one setting that is refused publishes nothing, although
\* files come and go, passes fail and containers restart.
PublishedIsConfigured ==
    conf # None =>
        Acceptable(env) /\ conf = [lease |-> LeaseOf(env), ns |-> env.ns]

\* A lease that ovnkube-node is given can be renewed before it ends.
LeaseCanBeRenewed ==
    conf # None /\ conf.lease # None =>
        0 < conf.lease.renew /\ conf.lease.renew < conf.lease.dur

\* The MTUs for the host "greater than 60 and less than or equal to 9216".
MtuInRange(mtu) == 60 < mtu /\ mtu <= 9216

\* A ready container has published its configuration, and in internal mode has
\* started dnsmasq with an MTU that Geneve and the largest frame leave room for. Only
\* an OVN_MTU that is negative, or that wraps around with the header, gets past that.
ReadyMeansConfigured ==
    ready => /\ conf # None
             /\ env.mode = "internal-ipam" => /\ dhcp # None
                                              /\ \/ MtuInRange(dhcp)
                                                 \/ env.mtu.value < 0
                                                 \/ env.mtu.value > MaxInt - 60
             /\ env.mode # "internal-ipam" => dhcp = None

\* What the other containers of the pod see of main: as in Provisioner, but with
\* each check of main, and with one step for a pass.
Seen ==
    CASE ready -> "ready"
      [] at \in {"down", "fatal"} -> "down"
      [] at \in Checks -> "reading"
      [] OTHER -> "configuring"

\* main behaves as ProvisionerOutline describes, whatever it finds in its
\* environment: it refuses before anything is published, and reports ready behind
\* the pass that publishes.
Outline == INSTANCE ProvisionerOutline WITH prov <- Seen, conf <- conf # None

KeepsOutline == Outline!Spec

\* The inductive invariant: what main has checked by the place it is at, and what
\* it has set.
Running == {"runOnce", "dhcp", "report", "serving"}
AfterLease == {"namespace", "hostClient"} \cup Running
AfterCidrs == {"ovsClient", "clientset", "lease"} \cup AfterLease
AfterIpam == {"vtepCidr", "hostCidr"} \cup AfterCidrs
AfterNode == {"vtep", "pf", "mtu", "discovery"} \cup AfterIpam

Checked ==
    /\ at \in {"node"} \cup AfterNode => ModeAcceptable(env)
    /\ at \in AfterNode => "NODE_NAME" \notin env.bad
    /\ at \in {"vtep", "pf", "mtu", "dhcp"} => env.mode = "internal-ipam"
    /\ at = "discovery" => env.mode = "external-ipam"
    /\ at \in AfterIpam => IpamAcceptable(env)
    /\ at \in AfterIpam \ {"vtepCidr"} => "VTEP_CIDR" \notin env.bad
    /\ at \in AfterCidrs => "HOST_CIDR" \notin env.bad
    /\ at \in AfterCidrs \ {"ovsClient"} => "OVS_TOOLS" \notin env.bad
    /\ at \in AfterCidrs \ {"ovsClient", "clientset"} => "SERVICE_ACCOUNT" \notin env.bad
    /\ at \in AfterLease => LeaseAcceptable(env)
    /\ at = "hostClient" => env.apiServer

Configured ==
    /\ at \in (Checks \ AfterLease) => lease = None
    /\ at \in AfterLease => lease = LeaseOf(env)
    /\ at \in {"hostClient"} \cup Running => ns = env.ns

Started ==
    /\ at \in {"dhcp", "report", "serving"} => conf # None
    /\ at \in {"report", "serving"} /\ env.mode = "internal-ipam" => dhcp # None
    /\ dhcp # None => /\ at \in {"report", "serving"} /\ dhcp = PfMTU
                      /\ dhcp # GeneveHeader /\ dhcp <= MaxMTUSize
                      /\ env.mode = "internal-ipam"
    /\ ready => at = "serving"

IInv == TypeOK /\ Checked /\ Configured /\ Started /\ PublishedIsConfigured

\* A container that accepts its environment and keeps its files is ready for good.
FilesFor(e) ==
    (IF e.mode = "internal-ipam" THEN {"vtep", "pf"} ELSE {})
        \cup (IF e.apiServer THEN {"token", "ca"} ELSE {})
CanServe ==
    /\ Acceptable(env) /\ FilesFor(env) \subseteq files
    /\ Internal => env.mtu.value + GeneveHeader <= MaxMTUSize
EventuallyReady == <>[]CanServe => <>[]ready

\* A check of main ends the process only for an environment that breaks one of the
\* conditions of Acceptable or a file that is not there; and once ovn_k8s.conf is
\* published, only an MTU that is too large with the header is refused.
RefusesOnlyBad ==
    [][/\ (at \in Checks /\ at' = "fatal") =>
              (~Acceptable(env) \/ ~(FilesFor(env) \subseteq files))
       /\ (at = "dhcp" /\ at' = "fatal") =>
              env.mtu.value + GeneveHeader > MaxMTUSize]_vars

-----------------------------------------------------------------------------
(***************************************************************************)
(* What the chart, the messages and the comments of main describe.         *)
(***************************************************************************)

\* "set to 0 to disable health check".
ZeroInterval(e) == Number(e.renew) /\ e.renew.value = 0

\* "renewInterval and leaseDuration must be > 0, and leaseDuration must be greater",
\* and the range of the MTU.
Described(e) ==
    /\ ModeAcceptable(e)
    /\ e.mode = "internal-ipam" =>
           e.mtu.kind = "number" /\ MtuInRange(e.mtu.value + GeneveHeader)
    /\ e.mode = "external-ipam" => "GATEWAY_DISCOVERY_NETWORK" \notin e.bad
    /\ e.bad \subseteq {"GATEWAY_DISCOVERY_NETWORK"}
    /\ LeaseAcceptable(e) \/ ZeroInterval(e)

\* main refuses nothing that is described, but for a renew interval of 0.
ServesDescribed ==
    [][(at \in Checks \cup {"dhcp"} /\ at' = "fatal") =>
           (~Described(env) \/ ZeroInterval(env) \/ ~(FilesFor(env) \subseteq files))]_vars

\* "invalid PF MTU: it must be greater than 60 and less than or equal to 9216".
DhcpMtuInRange == dhcp # None => MtuInRange(dhcp)

\* "set to 0 to disable health check": a pod whose other settings are in order
\* becomes ready without a lease.
ZeroDisables ==
    <>[](/\ env.renew.kind = "number" /\ env.renew.value = 0
         /\ Acceptable([env EXCEPT !.renew.kind = "unset"])
         /\ FilesFor(env) = {})
        => <>[](ready /\ conf.lease = None)

=============================================================================
