------------------------ MODULE StartupConfigProofs ------------------------
(***************************************************************************)
(* Proofs about StartupConfig, for every set of environments and every     *)
(* bound.  The invariant says of each place in main which settings have    *)
(* been found in order by then; it is needed because ovn_k8s.conf outlives *)
(* the process that checked them.                                          *)
(***************************************************************************)
EXTENDS StartupConfig, TLAPS

\* The values of an environment variable that parse are those that LeaseValid asks
\* for: TrimSpace, Atoi and the default agree with it.
LEMMA ParseAgrees ==
    ASSUME NEW e \in Envs
    PROVE  /\ (TrimSpace(e.renew).kind = "unset") <=> NotGiven(e.renew)
           /\ LeaseAccepted(TrimSpace(e.renew), TrimSpace(e.dur)) <=> LeaseValid(e)
           /\ LeaseDuration(TrimSpace(e.dur)) = Duration(e)
           /\ TrimSpace(e.renew).value = e.renew.value
  <1> DEFINE r == TrimSpace(e.renew)
             d == TrimSpace(e.dur)
  <1>1. e.renew \in Texts /\ e.dur \in Texts
    BY EnvsAssumption
  <1>2. ASSUME NEW t \in Texts
        PROVE  /\ TrimSpace(t).value = t.value
               /\ (TrimSpace(t).kind = "unset") <=> NotGiven(t)
               /\ (TrimSpace(t).kind = "number") <=> Number(t)
    BY <1>2 DEF Texts, Kinds, TrimSpace, NotGiven, Number
  <1>3. LeaseDuration(d) = Duration(e)
    BY <1>1, <1>2 DEF LeaseDuration, Duration, DefaultDuration
  <1>4. LeaseAccepted(r, d) <=> LeaseValid(e)
    <2>1. /\ (IsNumber(r) <=> Number(e.renew)) /\ (IsNumber(d) <=> Number(e.dur))
          /\ ((d.kind = "unset") <=> NotGiven(e.dur)) /\ r.value = e.renew.value
      BY <1>1, <1>2 DEF IsNumber
    <2>2. e.renew.value \in Int /\ Duration(e) \in Int
      BY <1>1, IntAssumption DEF Texts, Ints, Duration
    <2> HIDE DEF r, d
    <2> QED  BY <2>1, <2>2, <1>3 DEF LeaseAccepted, LeaseValid
  <1> QED  BY <1>1, <1>2, <1>3, <1>4

\* The defaults and the values of an environment are ints of the program.
LEMMA LeaseOfType ==
    ASSUME NEW e \in Envs
    PROVE  LeaseOf(e) \in LeaseBlocks \cup {None}
  BY EnvsAssumption, IntAssumption
     DEF LeaseOf, LeaseBlocks, Texts, Ints, Duration, NotGiven

\* The MTU given to dnsmasq is an int of the program.
LEMMA PfMTUType == ASSUME NEW n \in Ints PROVE Wrap(n + 60) \in Ints
  BY IntAssumption DEF Wrap, Ints

\* The first state: nothing is checked, set or published.
LEMMA InitIInv == Init => IInv
  <1> SUFFICES ASSUME Init PROVE IInv
    OBVIOUS
  <1>0. ready \in BOOLEAN /\ ns \in BOOLEAN
    BY DEF Init
  <1>1. TypeOK
    BY <1>0, BoundAssumption DEF Init, TypeOK, Places, AllFiles
  <1>2. Checked /\ Configured /\ Started /\ PublishedIsConfigured
    BY DEF Init, Checked, Configured, Started, PublishedIsConfigured,
           Checks, AfterLease, AfterCidrs, AfterIpam, AfterNode, Running
  <1> QED  BY <1>1, <1>2 DEF IInv

\* Every step of main, of kubelet and of the surroundings keeps the invariant.
LEMMA StepIInv == IInv /\ [Next]_vars => IInv'
  <1> SUFFICES ASSUME IInv, [Next]_vars PROVE IInv'
    OBVIOUS
  <1> USE DEF IInv
  <1>t. env \in Envs /\ env.mtu \in Texts /\ env.ns \in BOOLEAN
    BY EnvsAssumption DEF TypeOK
  <1>p. at \in Places
    BY DEF TypeOK
  <1>m. env' = env => PfMTU' = PfMTU
    BY DEF PfMTU
  <1>1. CASE UNCHANGED vars
    BY <1>m, <1>1 DEF vars, podVars, setVars, outVars, TypeOK, Checked, Configured,
                Started, PublishedIsConfigured
  <1>2. CASE StartContainer
    BY <1>2 DEF StartContainer, vars, podVars, TypeOK, Checked, Configured, Started,
                PublishedIsConfigured, Places, Checks, AfterLease, AfterCidrs,
                AfterIpam, AfterNode, Running
  <1>3. CASE ParseMode \/ NodeName \/ GetInfoFromVTEPIPAllocation \/ GetPFIP
             \/ GetOVNMTU \/ GetGatewayDiscoveryNetwork \/ GetVTEPCIDR
             \/ GetHostCIDR \/ NewOvsClient \/ NewClientset \/ NewHostClusterClient
    <2>1. /\ UNCHANGED <<podVars, files, outVars, setVars, faults>>
          /\ at' \in Places
      BY <1>3 DEF ParseMode, NodeName, GetInfoFromVTEPIPAllocation, GetPFIP,
             GetOVNMTU, GetGatewayDiscoveryNetwork, GetVTEPCIDR, GetHostCIDR,
             NewOvsClient, NewClientset, NewHostClusterClient, Check, Places, Checks
    <2>2. TypeOK' /\ PublishedIsConfigured'
      BY <2>1 DEF TypeOK, PublishedIsConfigured, podVars, outVars, setVars
    <2>3. at \in Checks /\ at' \in Checks \cup {"runOnce", "fatal"}
      BY <1>3 DEF ParseMode, NodeName, GetInfoFromVTEPIPAllocation, GetPFIP,
             GetOVNMTU, GetGatewayDiscoveryNetwork, GetVTEPCIDR, GetHostCIDR,
             NewOvsClient, NewClientset, NewHostClusterClient, Check, Checks
    <2>4. Started'
      BY <2>1, <2>3 DEF Started, podVars, outVars, setVars, Checks
    <2>5. Configured'
      BY <1>3, <2>1 DEF ParseMode, NodeName, GetInfoFromVTEPIPAllocation, GetPFIP,
             GetOVNMTU, GetGatewayDiscoveryNetwork, GetVTEPCIDR, GetHostCIDR,
             NewOvsClient, NewClientset, NewHostClusterClient, Check, Checks,
             Configured, AfterLease, Running, podVars, outVars, setVars, LeaseOf
    <2>6. Checked'
      BY <1>3, <2>1 DEF ParseMode, NodeName, GetInfoFromVTEPIPAllocation, GetPFIP,
             GetOVNMTU, GetGatewayDiscoveryNetwork, GetVTEPCIDR, GetHostCIDR,
             NewOvsClient, NewClientset, NewHostClusterClient, Check, Checked,
             AfterLease, AfterCidrs, AfterIpam, AfterNode, Running, podVars, outVars,
             setVars, ModeAcceptable, IpamAcceptable,
             LeaseAcceptable, Internal, IsNumber
    <2> QED  BY <2>2, <2>4, <2>5, <2>6
  <1>4. CASE ParseLease
    <2> DEFINE given == ~NotGiven(env.renew)
    <2>1. /\ at = "lease" /\ UNCHANGED <<podVars, files, outVars, ns, faults>>
          /\ at' = IF ~given \/ LeaseValid(env) THEN "namespace" ELSE "fatal"
          /\ lease' = IF given /\ LeaseValid(env)
                      THEN [renew |-> env.renew.value, dur |-> Duration(env)]
                      ELSE lease
      BY <1>4, <1>t, ParseAgrees DEF ParseLease, Check
    <2>2. lease = None
      BY <2>1 DEF Configured, Checks, AfterLease, Running
    <2>3. lease' \in {LeaseOf(env), None} /\ (at' = "namespace" => lease' = LeaseOf(env))
      BY <2>1, <2>2 DEF LeaseOf
    <2>4. TypeOK'
      BY <2>1, <2>3, <1>t, LeaseOfType
         DEF TypeOK, podVars, outVars, Places, Checks
    <2>5. Checked'
      BY <2>1 DEF Checked, AfterLease, AfterCidrs, AfterIpam, AfterNode, Running, podVars,
             LeaseAcceptable, ModeAcceptable, IpamAcceptable
    <2>6. Configured' /\ Started' /\ PublishedIsConfigured'
      BY <2>1, <2>3 DEF Configured, Started, PublishedIsConfigured, podVars,
             outVars, Checks, AfterLease, Running, LeaseOf
    <2> QED  BY <2>4, <2>5, <2>6
  <1>5. CASE SetOVNConfigNamespace
    BY <1>5, <1>t DEF SetOVNConfigNamespace, Check, TypeOK, Checked, Configured,
           Started, PublishedIsConfigured, Places, Checks, AfterLease, AfterCidrs,
           AfterIpam, AfterNode, Running, podVars, outVars, ModeAcceptable,
           IpamAcceptable, LeaseAcceptable
  <1>6. CASE Configure \/ ConfigureFails \/ LaterPass
    <2>1. /\ at \in {"runOnce", "serving"}
          /\ UNCHANGED <<podVars, files, setVars, dhcp, ready>>
          /\ conf' \in {conf, ConfOf}
          /\ \/ at = "runOnce" /\ at' \in {"dhcp", "report", "fatal"}
             \/ at = "serving" /\ at' = at
          /\ at' = "dhcp" => env.mode = "internal-ipam"
          /\ at' \in {"dhcp", "report", "serving"} => conf' = ConfOf
          /\ at' = "report" => env.mode # "internal-ipam"
          /\ faults' \in 0..MaxFaults
      BY <1>6, BoundAssumption
         DEF Configure, ConfigureFails, LaterPass, Fault, TypeOK, Internal
    <2>2. ConfOf = [lease |-> LeaseOf(env), ns |-> env.ns]
      BY <2>1 DEF Configured, ConfOf, AfterLease, Running
    <2>3. Acceptable(env)
      <3>1. env.bad \subseteq Required
        BY <1>t, EnvsAssumption
      <3> QED  BY <2>1, <3>1
               DEF Checked, Acceptable, AfterLease, AfterCidrs, AfterIpam, AfterNode,
                   Running, Required, Settings
    <2>4. PublishedIsConfigured'
      BY <2>1, <2>2, <2>3
         DEF PublishedIsConfigured, podVars, Acceptable, LeaseOf, ModeAcceptable,
             IpamAcceptable, LeaseAcceptable
    <2>5. TypeOK'
      BY <2>1 DEF TypeOK, podVars, setVars, ConfOf, Places, Checks
    <2>6. conf' = ConfOf => conf' # None
      <3>1. ConfOf \in [lease : [renew : Ints, dur : Ints] \cup {None}, ns : BOOLEAN]
        BY DEF ConfOf, TypeOK, LeaseBlocks
      <3> QED  BY <3>1, NoneAssumption
    <2>7. Checked'
      BY <2>1
         DEF Checked, podVars, AfterLease, AfterCidrs, AfterIpam, AfterNode, Running,
             ModeAcceptable, IpamAcceptable, LeaseAcceptable
    <2>8. Configured'
      BY <2>1
         DEF Configured, podVars, setVars, AfterLease, Running, Checks, LeaseOf
    <2>9. Started'
      <3>1. env' = env /\ dhcp' = dhcp /\ ready' = ready
        BY <2>1 DEF podVars
      <3>2. CASE at = "runOnce" /\ at' \in {"dhcp", "report", "fatal"}
        <4>1. dhcp' = None /\ ready' = FALSE
          BY <3>1, <3>2 DEF Started
        <4> QED  BY <2>1, <2>6, <3>1, <3>2, <4>1 DEF Started
      <3>3. CASE at = "serving" /\ at' = at
        BY <1>m, <2>1, <2>6, <3>1, <3>3 DEF Started
      <3> QED  BY <2>1, <3>2, <3>3
    <2> QED  BY <2>4, <2>5, <2>7, <2>8, <2>9
  <1>7. CASE StartDHCPServer
    <2>1. PfMTU \in Ints
      BY <1>t, PfMTUType DEF PfMTU, GeneveHeader, Texts
    <2>2. /\ at = "dhcp" /\ UNCHANGED <<podVars, files, setVars, conf, ready, faults>>
          /\ \/ at' = "fatal" /\ dhcp' = dhcp
             \/ /\ at' = "report" /\ dhcp' = PfMTU
                /\ PfMTU <= MaxMTUSize /\ PfMTU # GeneveHeader
      BY <1>7, <2>1, IntAssumption DEF StartDHCPServer, Ints, MaxMTUSize
    <2>3. TypeOK' /\ PublishedIsConfigured'
      BY <2>1, <2>2
         DEF TypeOK, PublishedIsConfigured, podVars, setVars, Places, Checks
    <2>4. Started'
      BY <1>m, <2>1, <2>2, NoneAssumption DEF Started, Checked, podVars, setVars
    <2>5. Checked' /\ Configured'
      BY <2>2
         DEF Checked, Configured, podVars, setVars, AfterLease, AfterCidrs, AfterIpam,
             AfterNode, Running, Checks, LeaseOf, ModeAcceptable, IpamAcceptable,
             LeaseAcceptable
    <2> QED  BY <2>3, <2>4, <2>5
  <1>8. CASE ReportReady
    BY <1>m, <1>8 DEF ReportReady, TypeOK, Checked, Configured, Started,
           PublishedIsConfigured, Places, Checks, AfterLease, AfterCidrs, AfterIpam,
           AfterNode, Running, podVars, setVars
  <1>9. CASE Crash
    <2>0. ready' \in BOOLEAN /\ ns' \in BOOLEAN
      BY <1>9 DEF Crash, TypeOK, setVars
    <2>1. TypeOK'
      BY <2>0, <1>9, BoundAssumption
         DEF Crash, Fault, TypeOK, Places, podVars, setVars
    <2>2. Checked' /\ Configured' /\ Started' /\ PublishedIsConfigured'
      BY <1>9
         DEF Crash, Checked, Configured, Started, PublishedIsConfigured, Checks,
             AfterLease, AfterCidrs, AfterIpam, AfterNode, Running, podVars, setVars
    <2> QED  BY <2>1, <2>2
  <1>10. CASE FileAppears \/ AllocationReturned
    <2>1. /\ UNCHANGED <<podVars, at, setVars, outVars>>
          /\ files' \subseteq AllFiles /\ faults' \in 0..MaxFaults
      BY <1>10, BoundAssumption DEF FileAppears, AllocationReturned, Fault, TypeOK
    <2> QED  BY <1>m, <2>1 DEF TypeOK, Checked, Configured, Started,
                 PublishedIsConfigured, podVars, setVars, outVars
  <1>11. CASE Rollout
    <2>0. ready' \in BOOLEAN /\ ns' \in BOOLEAN
      BY <1>11 DEF Rollout, TypeOK, setVars
    <2>1. TypeOK'
      BY <2>0, <1>11, BoundAssumption DEF Rollout, TypeOK, Places, setVars
    <2>2. Checked' /\ Configured' /\ Started' /\ PublishedIsConfigured'
      BY <1>11
         DEF Rollout, Checked, Configured, Started, PublishedIsConfigured, Checks,
             AfterLease, AfterCidrs, AfterIpam, AfterNode, Running
    <2> QED  BY <2>1, <2>2
  <1> QED  BY <1>1, <1>2, <1>3, <1>4, <1>5, <1>6, <1>7, <1>8, <1>9, <1>10, <1>11
           DEF Next, Main

\* The inductive invariant holds in every behaviour.
THEOREM Inductive == Spec => []IInv
  BY InitIInv, StepIInv, PTL DEF Spec

\* What a pod publishes is what its environment says, and is acceptable.
THEOREM Publishes == Spec => []PublishedIsConfigured
  <1>1. IInv => PublishedIsConfigured
    BY DEF IInv
  <1> QED  BY Inductive, <1>1, PTL

\* The lease of ovn_k8s.conf can be renewed before it ends.
THEOREM Renewable == Spec => []LeaseCanBeRenewed
  <1>1. IInv => LeaseCanBeRenewed
    <2> SUFFICES ASSUME IInv, conf # None, conf.lease # None
                 PROVE  0 < conf.lease.renew /\ conf.lease.renew < conf.lease.dur
      BY DEF LeaseCanBeRenewed
    <2>1. conf.lease = LeaseOf(env) /\ LeaseAcceptable(env)
      BY DEF IInv, PublishedIsConfigured, Acceptable
    <2> QED  BY <2>1 DEF LeaseOf, LeaseAcceptable, LeaseValid
  <1> QED  BY Inductive, <1>1, PTL

\* A ready container has published its configuration and, in internal mode, started
\* dnsmasq with an MTU in range unless OVN_MTU is negative or wraps around.
THEOREM ReadyConfigured == Spec => []ReadyMeansConfigured
  <1>1. IInv => ReadyMeansConfigured
    <2> SUFFICES ASSUME IInv, ready  PROVE ReadyMeansConfigured
      BY DEF ReadyMeansConfigured
    <2>1. at = "serving" /\ conf # None
      BY DEF IInv, Started
    <2>2. CASE env.mode # "internal-ipam"
      BY <2>1, <2>2 DEF IInv, Started, ReadyMeansConfigured
    <2>3. CASE env.mode = "internal-ipam"
      <3>1. /\ dhcp # None /\ dhcp = PfMTU /\ dhcp <= 9216
            /\ env.mtu.value # 0
        BY <2>1, <2>3
           DEF IInv, Started, MaxMTUSize, Checked, IpamAcceptable, AfterIpam,
               AfterCidrs, AfterLease, Running
      <3>2. env.mtu.value \in Int
        BY EnvsAssumption, IntAssumption DEF IInv, TypeOK, Texts, Ints
      <3>3. CASE 0 < env.mtu.value /\ env.mtu.value <= MaxInt - 60
        <4>1. dhcp = env.mtu.value + 60
          BY <3>1, <3>2, <3>3, IntAssumption DEF PfMTU, Wrap, GeneveHeader
        <4> QED  BY <2>1, <2>3, <3>1, <3>2, <3>3, <4>1
                 DEF ReadyMeansConfigured, MtuInRange
      <3>4. CASE env.mtu.value < 0 \/ env.mtu.value > MaxInt - 60
        BY <2>1, <2>3, <3>1, <3>4 DEF ReadyMeansConfigured
      <3> QED  BY <3>1, <3>2, <3>3, <3>4, IntAssumption
    <2> QED  BY <2>2, <2>3
  <1> QED  BY Inductive, <1>1, PTL

\* A check of main fails only over a setting that Acceptable excludes or a file that
\* is missing, and the MTU fails late only when it is too large with the header.
LEMMA FailsForCause ==
    ASSUME IInv, Next, at \in Checks \cup {"dhcp"}, at' = "fatal"
    PROVE  /\ at \in Checks => ~Acceptable(env) \/ ~(FilesFor(env) \subseteq files)
           /\ at = "dhcp" => env.mtu.value + GeneveHeader > MaxMTUSize
  <1>0. Checked /\ env \in Envs /\ env.mtu \in Texts
    BY EnvsAssumption DEF IInv, TypeOK
  <1>1. at = "dhcp" => ~(at \in Checks)
    BY DEF Checks
  <1>2. CASE at = "dhcp"
    <2>1. StartDHCPServer
      BY <1>2 DEF Next, Main, StartContainer, ParseMode, NodeName,
             GetInfoFromVTEPIPAllocation, GetPFIP, GetOVNMTU,
             GetGatewayDiscoveryNetwork, GetVTEPCIDR, GetHostCIDR, NewOvsClient,
             NewClientset, ParseLease, SetOVNConfigNamespace, NewHostClusterClient,
             Check, Configure, ConfigureFails, ReportReady, LaterPass, Crash, Rollout,
             FileAppears, AllocationReturned, podVars
    <2>2. PfMTU = GeneveHeader \/ PfMTU > MaxMTUSize
      BY <1>2, <2>1 DEF StartDHCPServer
    <2>3. env.mtu.value \in Int /\ env.mtu.value # 0 /\ env.mtu.value <= MaxInt
      BY <1>0, <1>2, IntAssumption
         DEF Checked, IpamAcceptable, AfterIpam, AfterCidrs, AfterLease, Running,
             Texts, Ints
    <2> QED  BY <1>1, <1>2, <2>2, <2>3, IntAssumption
             DEF PfMTU, Wrap, GeneveHeader, MaxMTUSize
  <1>3. CASE at \in Checks
    <2> SUFFICES ASSUME Acceptable(env), FilesFor(env) \subseteq files  PROVE FALSE
      BY <1>1, <1>3
    <2> USE DEF Checks
    <2>1. CASE ParseMode \/ NodeName \/ GetVTEPCIDR \/ GetHostCIDR
               \/ NewOvsClient \/ NewClientset
      BY <1>3, <2>1
         DEF ParseMode, NodeName, GetVTEPCIDR, GetHostCIDR, NewOvsClient,
             NewClientset, Check, Internal, Acceptable, ModeAcceptable
    <2>2. CASE GetInfoFromVTEPIPAllocation \/ GetPFIP \/ NewHostClusterClient
      BY <1>0, <2>2
         DEF GetInfoFromVTEPIPAllocation, GetPFIP, NewHostClusterClient, Check,
             Checked, FilesFor
    <2>3. CASE GetOVNMTU \/ GetGatewayDiscoveryNetwork
      BY <1>0, <2>3
         DEF GetOVNMTU, GetGatewayDiscoveryNetwork, Check, Checked, Acceptable,
             IpamAcceptable, IsNumber
    <2>4. CASE ParseLease
      BY <1>0, <2>4, ParseAgrees
         DEF ParseLease, Check, Acceptable, LeaseAcceptable
    <2>5. CASE SetOVNConfigNamespace
      BY <2>5 DEF SetOVNConfigNamespace, Check
    <2>6. CASE StartContainer \/ Configure \/ ConfigureFails \/ StartDHCPServer
               \/ ReportReady \/ LaterPass \/ Crash \/ Rollout \/ FileAppears
               \/ AllocationReturned
      BY <1>3, <2>6
         DEF StartContainer, Configure, ConfigureFails, StartDHCPServer, ReportReady,
             LaterPass, Crash, Rollout, FileAppears, AllocationReturned, podVars
    <2> QED  BY <2>1, <2>2, <2>3, <2>4, <2>5, <2>6 DEF Next, Main
  <1> QED  BY <1>2, <1>3

\* The order of the checks and the parsing behind them refuse no environment that
\* passes each condition by itself, and what has published ovn_k8s.conf is refused
\* for nothing but its MTU.
THEOREM RefusesForCause == Spec => RefusesOnlyBad
  <1>1. IInv /\ [Next]_vars =>
            [/\ (at \in Checks /\ at' = "fatal") =>
                    (~Acceptable(env) \/ ~(FilesFor(env) \subseteq files))
             /\ (at = "dhcp" /\ at' = "fatal") =>
                    env.mtu.value + GeneveHeader > MaxMTUSize]_vars
    BY FailsForCause
  <1> QED  BY <1>1, Inductive, PTL DEF Spec, RefusesOnlyBad

\* Whatever the chart, the messages and the comments of main describe is served, but
\* for a renew interval of 0. The converse does not hold: a negative MTU is served.
THEOREM ServesTheDescribed == Spec => ServesDescribed
  <1>1. ASSUME IInv, Described(env), ~ZeroInterval(env)
        PROVE  /\ Acceptable(env)
               /\ Internal => env.mtu.value + GeneveHeader <= MaxMTUSize
    <2>1. env.mtu.value \in Int
      BY <1>1, EnvsAssumption, IntAssumption DEF IInv, TypeOK, Texts, Ints
    <2> QED  BY <1>1, <2>1
             DEF Described, Acceptable, IpamAcceptable, MtuInRange, GeneveHeader,
                 MaxMTUSize, Internal
  <1>2. IInv /\ at = "dhcp" => Internal
    BY DEF IInv, Checked, Internal
  <1>3. IInv /\ Described(env) /\ ~ZeroInterval(env) /\ at = "dhcp"
            => ~(env.mtu.value + GeneveHeader > MaxMTUSize)
    <2> SUFFICES ASSUME IInv, Described(env), ~ZeroInterval(env), at = "dhcp"
                 PROVE  ~(env.mtu.value + GeneveHeader > MaxMTUSize)
      OBVIOUS
    <2>1. env.mtu.value \in Int
      BY EnvsAssumption, IntAssumption DEF IInv, TypeOK, Texts, Ints
    <2> QED  BY <1>1, <1>2, <2>1 DEF GeneveHeader, MaxMTUSize
  <1>4. IInv /\ [Next]_vars =>
            [(at \in Checks \cup {"dhcp"} /\ at' = "fatal") =>
                (~Described(env) \/ ZeroInterval(env)
                    \/ ~(FilesFor(env) \subseteq files))]_vars
    BY <1>1, <1>3, FailsForCause
  <1> QED  BY <1>4, Inductive, PTL DEF Spec, ServesDescribed

-----------------------------------------------------------------------------
\* A step of main is a step of ProvisionerOutline, or none.
LEMMA OutlineSimulation == IInv /\ [Next]_vars => [Outline!Next]_(Outline!vars)
  <1> SUFFICES ASSUME IInv, [Next]_vars PROVE [Outline!Next]_(Outline!vars)
    OBVIOUS
  <1> USE DEF podVars, setVars, outVars, Outline!vars, Outline!Next, Places, Checks
  <1>0. /\ TypeOK /\ Started /\ at \in Places
        /\ ready \in BOOLEAN /\ (ready => at = "serving")
    BY DEF IInv, TypeOK, Started
  <1>1. ConfOf # None
    BY <1>0, NoneAssumption DEF TypeOK, ConfOf, LeaseBlocks
  <1>2. ASSUME NEW here \in Checks, NEW ok, NEW next \in Checks \cup {"runOnce"},
               Check(here, ok, next)
        PROVE  [Outline!Next]_(Outline!vars)
    <2>1. /\ Seen = "reading" /\ UNCHANGED conf
          /\ Seen' \in {"reading", "configuring", "down"}
      BY <1>0, <1>2 DEF Check, Seen
    <2> QED  BY <2>1 DEF Outline!Accept, Outline!End
  <1>3. CASE ParseMode \/ NodeName \/ GetInfoFromVTEPIPAllocation \/ GetPFIP
             \/ GetOVNMTU \/ GetGatewayDiscoveryNetwork \/ GetVTEPCIDR \/ GetHostCIDR
             \/ NewOvsClient \/ NewClientset
             \/ ParseLease \/ SetOVNConfigNamespace \/ NewHostClusterClient
    BY <1>2, <1>3
       DEF ParseMode, NodeName, GetInfoFromVTEPIPAllocation, GetPFIP, GetOVNMTU,
           GetGatewayDiscoveryNetwork, GetVTEPCIDR, GetHostCIDR, NewOvsClient,
           NewClientset, ParseLease, SetOVNConfigNamespace, NewHostClusterClient
  <1>4. CASE StartContainer
    <2>1. Seen = "down" /\ Seen' = "reading" /\ UNCHANGED conf
      BY <1>0, <1>4 DEF StartContainer, Seen
    <2> QED  BY <2>1 DEF Outline!Start
  <1>5. CASE Configure
    <2>1. Seen = "configuring" /\ Seen' = "configuring" /\ conf' # None
      BY <1>0, <1>1, <1>5 DEF Configure, Seen
    <2> QED  BY <2>1 DEF Outline!WriteConf
  <1>6. CASE LaterPass
    <2>1. Seen \in {"configuring", "ready"} /\ Seen' = Seen /\ conf' # None
      BY <1>0, <1>1, <1>6 DEF LaterPass, Seen
    <2> QED  BY <2>1 DEF Outline!WriteConf
  <1>7. CASE StartDHCPServer
    <2>1. Seen = "configuring" /\ Seen' \in {"configuring", "down"} /\ UNCHANGED conf
      BY <1>0, <1>7 DEF StartDHCPServer, Seen
    <2> QED  BY <2>1 DEF Outline!End
  <1>8. CASE ReportReady
    <2>1. Seen = "configuring" /\ Seen' = "ready" /\ conf # None /\ UNCHANGED conf
      BY <1>0, <1>8 DEF ReportReady, Started, Seen
    <2> QED  BY <2>1 DEF Outline!ReportReady
  <1>9. CASE ConfigureFails
    <2>1. /\ Seen = "configuring" /\ Seen' = "down"
          /\ conf' = conf \/ conf' # None
      BY <1>0, <1>1, <1>9 DEF ConfigureFails, Seen
    <2> QED  BY <2>1 DEF Outline!End
  <1>10. CASE Crash
    <2>1. Seen' = "down" /\ UNCHANGED conf
      BY <1>10 DEF Crash, Seen
    <2> QED  BY <2>1 DEF Outline!End
  <1>11. CASE Rollout
    <2>1. Seen' = "down" /\ conf' = None
      BY <1>11 DEF Rollout, Seen
    <2> QED  BY <2>1 DEF Outline!LosePod
  <1>12. CASE FileAppears \/ AllocationReturned \/ UNCHANGED vars
    <2>1. UNCHANGED <<at, ready, conf>>
      BY <1>12 DEF FileAppears, AllocationReturned, vars, podVars, setVars, outVars
    <2> QED  BY <2>1 DEF Seen
  <1> QED  BY <1>3, <1>4, <1>5, <1>6, <1>7, <1>8, <1>9, <1>10, <1>11, <1>12
              DEF Next, Main

\* With all its checks main implements the outline that DPUPod is built from.
THEOREM ImplementsOutline == Spec => KeepsOutline
  <1>1. Init => Outline!Init
    <2> SUFFICES ASSUME Init  PROVE Outline!Init
      OBVIOUS
    <2>1. Seen = "down"
      BY DEF Init, Seen, Checks
    <2> QED  BY <2>1 DEF Init, Outline!Init
  <1> QED  BY <1>1, OutlineSimulation, Inductive, PTL
              DEF Spec, KeepsOutline, Outline!Spec

=============================================================================
