------------------------- MODULE ProvisionerProofs -------------------------
(***************************************************************************)
(* Proofs about Provisioner, for any labels, addresses, gateways and       *)
(* bounds, and for both modes. IInv is inductive: one lemma shows for each *)
(* of its conjuncts that every action keeps it, given all of IInv.         *)
(***************************************************************************)
EXTENDS ProvisionerProps, FiniteSetTheorems, TLAPS

\* What no action touches keeps its type.
LEMMA HostUntouched == HostTypeOK /\ UNCHANGED hostVars => HostTypeOK'
  BY DEF HostTypeOK, hostVars

\* The same for the process.
LEMMA ProcUntouched == ProcTypeOK /\ UNCHANGED procVars => ProcTypeOK'
  BY DEF ProcTypeOK, procVars

\* A successful netplan apply is all that changes on the host.
LEMMA AppliedTyped ==
  ASSUME HostTypeOK, applied' = TRUE,
         UNCHANGED <<brAddrs, routes, rules, sourceRoutes, ovs, file>>
  PROVE  HostTypeOK'
<1>1. applied' \in BOOLEAN
  OBVIOUS
<1>2. /\ brAddrs' \subseteq Addrs /\ sourceRoutes' \subseteq OobGateways
      /\ routes' \subseteq [dst : {"hostCIDR", "vtepCIDR"}, gw : Gateways]
  BY DEF HostTypeOK
<1>3. rules' \subseteq [prio : {31000, 32000}, from : FlannelNets \cup OobAddrs]
  BY DEF HostTypeOK
<1>4. ovs' \in [hostNode : HostNames \cup {None}, hostName : HostNames \cup {None},
               encap : Addrs \cup {None}]
  BY DEF HostTypeOK
<1>5. file' \in [host : HostNames \cup {None, Torn},
                kubeconfig : HostNames \cup {None, Torn},
                conf : [nextHop : Gateways, subnet : Nets] \cup {None, Torn}]
  BY DEF HostTypeOK
<1> QED
  BY <1>1, <1>2, <1>3, <1>4, <1>5 DEF HostTypeOK

\* A process that ended is typed.
LEMMA ProcessEndsTyped == ProcessEnds => ProcTypeOK' /\ pass' = "idle"
<1>1. NoMem \in [hostName : HostNames \cup {None}, vtep : Addrs \cup {None},
                 gw : Gateways \cup {None}]
  BY DEF NoMem
<1> QED
  BY <1>1 DEF ProcessEnds, ProcTypeOK

\* So is one whose configure() returned an error, fatal or logged.
LEMMA AbortTyped == TypeOK /\ Abort => ProcTypeOK' /\ pass' = "idle"
  BY ProcUntouched, ProcessEndsTyped DEF TypeOK, Abort

\* The surroundings keep their type, and the bounds hold.
LEMMA EnvStep ==
  ASSUME TypeOK, Next
  PROVE  EnvTypeOK'
<1> USE BoundAssumption DEF EnvTypeOK, budgetVars
<1>0. EnvTypeOK
  BY DEF TypeOK
<1>1. ASSUME UNCHANGED <<env, changes>>, undisturbed' \in BOOLEAN,
             faults' = faults \/ (faults < MaxFaults /\ faults' = faults + 1)
      PROVE  EnvTypeOK'
  BY <1>0, <1>1
<1>2. CASE StartProcess \/ ReadArguments \/ TickerFires \/ FinishPass \/ StartDHCPServer
               \/ ReportReady \/ MainStepFails \/ Interrupt \/ Stop \/ LoopReturns
               \/ MainReturns \/ Crash \/ DnsmasqDies \/ LivenessProbeFails
               \/ PassStepFails
  BY <1>0, <1>1, <1>2
  DEF StartProcess, ReadArguments, TickerFires, FinishPass, StartDHCPServer, ReportReady,
      MainStepFails, Interrupt, Stop, LoopReturns, MainReturns, Crash,
      DnsmasqDies, LivenessProbeFails, PassStepFails
<1>3. CASE PassStep
  <2> USE DEF Advance, Reject
  <2>1. UNCHANGED <<env, undisturbed, budgetVars>>
    BY <1>3
    DEF PassStep, GetHostName, SetKubernetesHostNodeName, SetHostName,
        WriteHostNodeNameFile, WriteBootstrapKubeconfig, ReconcileChassisID,
        ReadBrOvnAddrs, RunNetplanApply, ReadGateway, SetVtepAddr, AddVtepRoute,
        AddHostRoute, SetOVNEncapIP, WriteFilesForOVN, AddFlannelRule, AddOobRule,
        AddSourceRoute, FileStep, RouteStep, RuleStep
  <2> QED
    BY <1>0, <1>1, <2>1
<1>4. ASSUME Disturb, env' \in Envs
      PROVE  EnvTypeOK'
  <2>1. changes' \in 0..MaxChanges
    BY <1>0, <1>4 DEF Disturb
  <2> QED
    BY <1>0, <1>4, <2>1 DEF Disturb
<1>5. CASE SystemChanges \/ RecreatePod
  <2>1. env' \in Envs
    BY <1>0, <1>5 DEF SystemChanges, RecreatePod, Envs
  <2> QED
    BY <1>4, <1>5, <2>1 DEF SystemChanges, RecreatePod
<1>6. CASE RenumberBrOvn
  BY <1>0, <1>4, <1>6 DEF RenumberBrOvn
<1>7. CASE DHCPAssigns
  BY <1>0, <1>1, <1>7 DEF DHCPAssigns
<1> QED
  BY <1>2, <1>3, <1>5, <1>6, <1>7 DEF Next

\* The process keeps its type; the arguments of dnsmasq and the reading are
\* never built from a nil address or gateway.
LEMMA ProcStep ==
  ASSUME IInv, Next
  PROVE  ProcTypeOK' /\ pass' \in PassSteps \cup {"idle", "done"}
<1> USE DEF PassSteps
<1>0. TypeOK /\ ProcTypeOK /\ pass \in PassSteps \cup {"idle", "done"}
  BY DEF IInv, TypeOK
<1>1. CASE ReadArguments
  <2>1. env.alloc \in [addr : Addrs, gw : Gateways]
    BY <1>0, AllocsAssumption DEF TypeOK, EnvTypeOK, Envs
  <2> QED
    BY <1>0, <1>1, <2>1 DEF ReadArguments, ProcTypeOK
<1>2. CASE StartProcess \/ TickerFires \/ FinishPass \/ ReportReady \/ Interrupt
               \/ Stop \/ LoopReturns \/ DnsmasqDies
  <2>1. UNCHANGED <<mem, dhcpCmd>> /\ reading' \in {reading, None}
    BY <1>2 DEF StartProcess, TickerFires, FinishPass, ReportReady, Interrupt,
                Stop, LoopReturns, DnsmasqDies
  <2>2. /\ main' \in {main, "read", "dhcp", "report", "serve", "stop", "wait"}
        /\ pass' \in {pass, "getNode", "idle"}
    BY <1>2 DEF StartProcess, TickerFires, FinishPass, ReportReady, Interrupt,
                Stop, LoopReturns, DnsmasqDies
  <2>3. loop' \in BOOLEAN /\ dnsmasq' \in BOOLEAN /\ ready' \in BOOLEAN
    BY <1>0, <1>2 DEF ProcTypeOK, StartProcess, TickerFires, FinishPass, ReportReady,
                      Interrupt, Stop, LoopReturns, DnsmasqDies
  <2> QED
    BY <1>0, <2>1, <2>2, <2>3 DEF ProcTypeOK
<1>3. CASE StartDHCPServer
  <2>1. mem.vtep \in Addrs /\ mem.gw \in Gateways
    BY <1>3, AllocsAssumption
    DEF StartDHCPServer, IInv, ControlInv, AllocInv, TypeOK, EnvTypeOK, Envs
  <2>2. dhcpCmd' \in [subnet : Nets, route : Gateways \cup {None}]
    BY <1>3, <2>1, NetAssumption DEF StartDHCPServer, DhcpArgs
  <2> QED
    BY <1>0, <1>3, <2>2 DEF StartDHCPServer, ProcTypeOK
<1>4. CASE MainStepFails \/ MainReturns \/ Crash \/ LivenessProbeFails \/ RecreatePod
  BY <1>4, ProcessEndsTyped
  DEF MainStepFails, MainReturns, Crash, LivenessProbeFails, RecreatePod
<1>5. CASE PassStepFails
  BY <1>0, <1>5, AbortTyped DEF PassStepFails
<1>6. CASE SystemChanges \/ RenumberBrOvn \/ DHCPAssigns
  BY <1>0, <1>6, ProcUntouched DEF SystemChanges, RenumberBrOvn, DHCPAssigns
<1>7. CASE PassStep
  <2> USE DEF Advance
  <2>1. ASSUME NEW at, Reject(at)
        PROVE  ProcTypeOK' /\ pass' = "idle"
    BY <1>0, <2>1, AbortTyped DEF Reject
  <2>2. ASSUME UNCHANGED procVars
        PROVE  ProcTypeOK'
    BY <1>0, <2>2, ProcUntouched
  <2> USE DEF procVars
  <2>3. CASE GetHostName
    BY <1>0, <2>1, <2>3 DEF GetHostName, ProcTypeOK
  <2>4. CASE SetKubernetesHostNodeName \/ SetHostName
    BY <2>2, <2>4 DEF SetKubernetesHostNodeName, SetHostName, AfterIdentity
  <2>5. CASE WriteHostNodeNameFile \/ WriteBootstrapKubeconfig \/ WriteFilesForOVN
    BY <2>2, <2>5 DEF WriteHostNodeNameFile, WriteBootstrapKubeconfig,
                      WriteFilesForOVN, FileStep
  <2>6. CASE ReconcileChassisID
    BY <2>1, <2>2, <2>6 DEF ReconcileChassisID, AfterIdentity
  <2>7. CASE ReadBrOvnAddrs
    BY <1>0, <2>7 DEF ReadBrOvnAddrs, ProcTypeOK
  <2>8. CASE RunNetplanApply
    BY <1>0, <2>1, <2>2, <2>8 DEF RunNetplanApply
  <2>9. CASE ReadGateway
    <3>1. CASE Reject("gateway")
      BY <2>1, <3>1
    <3>2. CASE Advance("gateway", "hostRoute") /\ env.discGw # None
      <4>1. pass = "gateway" /\ mem.vtep \in Addrs
        BY <3>2 DEF IInv, PassInv
      <4>2. env.discGw \in Gateways
        BY <1>0, <3>2 DEF TypeOK, EnvTypeOK, Envs
      <4> QED
        BY <1>0, <2>9, <3>2, <4>1, <4>2 DEF ReadGateway, ProcTypeOK, Reject
    <3> QED
      BY <2>9, <3>1, <3>2 DEF ReadGateway
  <2>10. CASE SetVtepAddr \/ AddVtepRoute \/ AddHostRoute \/ SetOVNEncapIP
    BY <2>1, <2>2, <2>10
    DEF SetVtepAddr, AddVtepRoute, AddHostRoute, SetOVNEncapIP, RouteStep
  <2>11. CASE AddFlannelRule \/ AddOobRule \/ AddSourceRoute
    BY <2>1, <2>2, <2>11 DEF AddFlannelRule, AddOobRule, AddSourceRoute, RuleStep
  <2> QED
    BY <1>7, <2>3, <2>4, <2>5, <2>6, <2>7, <2>8, <2>9, <2>10, <2>11 DEF PassStep
<1> QED
  BY <1>1, <1>2, <1>3, <1>4, <1>5, <1>6, <1>7 DEF Next

\* What is published keeps its type: no nil address, gateway or host name
\* reaches a route, an external id or a file.
LEMMA HostStep ==
  ASSUME IInv, Next
  PROVE  HostTypeOK'
<1>0. HostTypeOK /\ ProcTypeOK /\ EnvTypeOK
  BY DEF IInv, TypeOK
<1>1. ASSUME UNCHANGED hostVars
      PROVE  HostTypeOK'
  BY <1>0, <1>1, HostUntouched
<1>2. CASE StartProcess \/ ReadArguments \/ TickerFires \/ FinishPass \/ StartDHCPServer
               \/ ReportReady \/ MainStepFails \/ Interrupt \/ Stop \/ LoopReturns
               \/ MainReturns \/ Crash \/ DnsmasqDies \/ LivenessProbeFails
               \/ PassStepFails \/ SystemChanges
  BY <1>1, <1>2
  DEF StartProcess, ReadArguments, TickerFires, FinishPass, StartDHCPServer, ReportReady,
      MainStepFails, Interrupt, Stop, LoopReturns, MainReturns, Crash,
      DnsmasqDies, LivenessProbeFails, PassStepFails, SystemChanges
<1>3. CASE RenumberBrOvn \/ DHCPAssigns
  <2>1. /\ brAddrs' \subseteq Addrs /\ routes' \in {routes, {}}
        /\ UNCHANGED <<rules, sourceRoutes, ovs, file, applied>>
    BY <1>3 DEF RenumberBrOvn, DHCPAssigns
  <2> QED
    BY <1>0, <2>1 DEF HostTypeOK
<1>5. CASE RecreatePod
  <2>1. file' \in [host : HostNames \cup {None, Torn},
                   kubeconfig : HostNames \cup {None, Torn},
                   conf : [nextHop : Gateways, subnet : Nets] \cup {None, Torn}]
    <3>1. file \in [host : HostNames \cup {None, Torn},
                    kubeconfig : HostNames \cup {None, Torn},
                    conf : [nextHop : Gateways, subnet : Nets] \cup {None, Torn}]
      BY <1>0 DEF HostTypeOK
    <3>2. file' = [file EXCEPT !.kubeconfig = None, !.conf = None]
      BY <1>5 DEF RecreatePod
    <3> QED
      BY <3>1, <3>2
  <2>2. UNCHANGED <<brAddrs, routes, rules, sourceRoutes, ovs, applied>>
    BY <1>5 DEF RecreatePod
  <2>3. /\ brAddrs' \subseteq Addrs
        /\ routes' \subseteq [dst : {"hostCIDR", "vtepCIDR"}, gw : Gateways]
    BY <1>0, <2>2 DEF HostTypeOK
  <2>4. /\ rules' \subseteq [prio : {31000, 32000},
                             from : FlannelNets \cup OobAddrs]
        /\ sourceRoutes' \subseteq OobGateways /\ applied' \in BOOLEAN
    BY <1>0, <2>2 DEF HostTypeOK
  <2>5. ovs' \in [hostNode : HostNames \cup {None},
                  hostName : HostNames \cup {None}, encap : Addrs \cup {None}]
    BY <1>0, <2>2 DEF HostTypeOK
  <2> QED
    BY <2>1, <2>3, <2>4, <2>5 DEF HostTypeOK
<1>6. CASE RunNetplanApply
  BY <1>0, <1>1, <1>6, AppliedTyped DEF RunNetplanApply
<1>4. CASE PassStep
  <2> USE DEF HostTypeOK
  <2>1. CASE GetHostName \/ ReconcileChassisID \/ ReadBrOvnAddrs \/ ReadGateway
    BY <1>1, <2>1 DEF GetHostName, ReconcileChassisID, ReadBrOvnAddrs, ReadGateway
  <2>2. CASE SetKubernetesHostNodeName \/ SetHostName
    BY <1>0, <2>2 DEF SetKubernetesHostNodeName, SetHostName, ProcTypeOK
  <2>3. CASE WriteHostNodeNameFile \/ WriteBootstrapKubeconfig
    BY <1>0, <2>3
    DEF WriteHostNodeNameFile, WriteBootstrapKubeconfig, FileStep, ProcTypeOK
  <2>4. pass \in {"vtepAddr", "vtepRoute"} => Internal /\ main \notin {"down", "read"}
    BY DEF IInv, ControlInv
  <2>5. Internal /\ main \notin {"down", "read"} =>
            mem.vtep \in Addrs /\ mem.gw \in Gateways
    BY <1>0, AllocsAssumption DEF IInv, AllocInv, EnvTypeOK, Envs
  <2>6. pass \in {"hostRoute", "encap", "openConf", "writeConf"} =>
            mem.vtep \in Addrs /\ mem.gw \in Gateways
    BY DEF IInv, PassInv, AfterReading, AfterHostRoute, AfterEncap
  <2>7. CASE RunNetplanApply
    BY <1>6, <2>7
  <2>8. CASE SetVtepAddr
    BY <1>0, <2>4, <2>5, <2>8 DEF SetVtepAddr, Advance
  <2>9. CASE AddVtepRoute \/ AddHostRoute
    BY <1>0, <1>1, <2>4, <2>5, <2>6, <2>9
    DEF AddVtepRoute, AddHostRoute, RouteStep, Advance, VtepRoute, HostRoute
  <2>10. CASE SetOVNEncapIP
    BY <1>0, <2>6, <2>10 DEF SetOVNEncapIP, Advance
  <2>11. CASE WriteFilesForOVN
    <3>1. pass = "writeConf" =>
              ConfOf(mem.vtep, mem.gw) \in [nextHop : Gateways, subnet : Nets]
      BY <2>6, NetAssumption DEF ConfOf
    <3> QED
      BY <1>0, <2>11, <3>1 DEF WriteFilesForOVN, FileStep, Advance
  <2>12. CASE AddFlannelRule \/ AddOobRule
    BY <1>0, <1>1, <2>12
    DEF AddFlannelRule, AddOobRule, RuleStep, FlannelRule, OobRule
  <2>13. CASE AddSourceRoute
    BY <1>0, <1>1, <2>13 DEF AddSourceRoute, EnvTypeOK, Envs
  <2> QED
    BY <1>4, <2>1, <2>2, <2>3, <2>7, <2>8, <2>9, <2>10, <2>11, <2>12, <2>13
    DEF PassStep
<1> QED
  BY <1>2, <1>3, <1>4, <1>5 DEF Next

\* The goroutines stay where they may be.
LEMMA ControlStep ==
  ASSUME TypeOK, ControlInv, Next
  PROVE  ControlInv'
<1> USE DEF ControlInv, hostVars, procVars, budgetVars
<1>0. /\ loop \in BOOLEAN
      /\ main \in {"down", "read", "configure", "dhcp", "report", "serve", "stop",
                   "wait"}
  BY DEF TypeOK, ProcTypeOK
<1>1. CASE StartProcess \/ ReadArguments
  BY <1>1 DEF StartProcess, ReadArguments
<1>2. CASE TickerFires
  BY <1>2 DEF TickerFires
<1>3. CASE FinishPass
  BY <1>0, <1>3 DEF FinishPass
<1>4. CASE StartDHCPServer
  BY <1>4 DEF StartDHCPServer
<1>5. CASE ReportReady
  BY <1>5 DEF ReportReady
<1>6. CASE MainStepFails \/ MainReturns \/ Crash \/ LivenessProbeFails \/ RecreatePod
  BY <1>6 DEF MainStepFails, MainReturns, Crash, LivenessProbeFails, RecreatePod,
              ProcessEnds
<1>7. CASE Interrupt \/ Stop \/ LoopReturns \/ DnsmasqDies
  BY <1>7 DEF Interrupt, Stop, LoopReturns, DnsmasqDies, Cancelled
<1>8. CASE PassStepFails
  BY <1>8 DEF PassStepFails, Abort, ProcessEnds
<1>9. CASE SystemChanges \/ RenumberBrOvn \/ DHCPAssigns
  BY <1>9 DEF SystemChanges, RenumberBrOvn, DHCPAssigns
<1>10. CASE PassStep
  <2> USE DEF Advance
  <2>1. ASSUME NEW at, Reject(at)
        PROVE  ControlInv'
    BY <2>1 DEF Reject, Abort, ProcessEnds
  <2>2. CASE GetHostName
    BY <2>1, <2>2 DEF GetHostName
  <2>3. CASE SetKubernetesHostNodeName \/ SetHostName
    BY <2>3 DEF SetKubernetesHostNodeName, SetHostName, AfterIdentity
  <2>4. CASE WriteHostNodeNameFile \/ WriteBootstrapKubeconfig \/ WriteFilesForOVN
    BY <2>4 DEF WriteHostNodeNameFile, WriteBootstrapKubeconfig,
                WriteFilesForOVN, FileStep
  <2>5. CASE ReconcileChassisID
    BY <2>1, <2>5 DEF ReconcileChassisID, AfterIdentity
  <2>6. CASE ReadBrOvnAddrs
    BY <2>6 DEF ReadBrOvnAddrs
  <2>7. CASE RunNetplanApply \/ ReadGateway
    BY <2>1, <2>7 DEF RunNetplanApply, ReadGateway
  <2>8. CASE SetVtepAddr \/ AddVtepRoute \/ AddHostRoute \/ SetOVNEncapIP
    BY <2>1, <2>8 DEF SetVtepAddr, AddVtepRoute, AddHostRoute, SetOVNEncapIP, RouteStep
  <2>9. CASE AddFlannelRule \/ AddOobRule \/ AddSourceRoute
    BY <2>1, <2>9 DEF AddFlannelRule, AddOobRule, AddSourceRoute, RuleStep
  <2> QED
    BY <1>10, <2>2, <2>3, <2>4, <2>5, <2>6, <2>7, <2>8, <2>9 DEF PassStep
<1> QED
  BY <1>1, <1>2, <1>3, <1>4, <1>5, <1>6, <1>7, <1>8, <1>9, <1>10 DEF Next

\* The process keeps the allocation it started with.
LEMMA AllocStep ==
  ASSUME TypeOK, ControlInv, AllocInv, Next
  PROVE  AllocInv'
<1> USE DEF AllocInv, hostVars, procVars, budgetVars, Internal
<1>1. CASE StartProcess \/ ReadArguments
  BY <1>1 DEF StartProcess, ReadArguments
<1>2. CASE TickerFires \/ FinishPass \/ StartDHCPServer \/ ReportReady
  BY <1>2 DEF TickerFires, FinishPass, StartDHCPServer, ReportReady, ControlInv
<1>3. CASE MainStepFails \/ MainReturns \/ Crash \/ LivenessProbeFails \/ RecreatePod
  BY <1>3 DEF MainStepFails, MainReturns, Crash, LivenessProbeFails, RecreatePod,
              ProcessEnds
<1>4. CASE Interrupt \/ Stop \/ LoopReturns \/ DnsmasqDies
  BY <1>4 DEF Interrupt, Stop, LoopReturns, DnsmasqDies, Cancelled
<1>5. CASE PassStepFails
  BY <1>5 DEF PassStepFails, Abort, ProcessEnds
<1>6. CASE SystemChanges \/ RenumberBrOvn \/ DHCPAssigns
  <2>1. env'.alloc = env.alloc
    BY <1>6 DEF SystemChanges, RenumberBrOvn, DHCPAssigns, TypeOK, EnvTypeOK, Envs
  <2> QED
    BY <1>6, <2>1 DEF SystemChanges, RenumberBrOvn, DHCPAssigns
<1>7. CASE PassStep
  <2> USE DEF Advance
  <2>1. ASSUME NEW at, Reject(at)
        PROVE  AllocInv'
    BY <2>1 DEF Reject, Abort, ProcessEnds
  <2>2. CASE GetHostName
    BY <2>1, <2>2 DEF GetHostName, TypeOK, ProcTypeOK
  <2>3. CASE SetKubernetesHostNodeName \/ SetHostName
    BY <2>3 DEF SetKubernetesHostNodeName, SetHostName
  <2>4. CASE WriteHostNodeNameFile \/ WriteBootstrapKubeconfig \/ WriteFilesForOVN
    BY <2>4 DEF WriteHostNodeNameFile, WriteBootstrapKubeconfig,
                WriteFilesForOVN, FileStep
  <2>5. CASE ReconcileChassisID
    BY <2>1, <2>5 DEF ReconcileChassisID
  <2>6. CASE ReadBrOvnAddrs \/ RunNetplanApply \/ ReadGateway
    BY <2>1, <2>6 DEF ReadBrOvnAddrs, RunNetplanApply, ReadGateway, ControlInv
  <2>7. CASE SetVtepAddr \/ AddVtepRoute \/ AddHostRoute \/ SetOVNEncapIP
    BY <2>1, <2>7 DEF SetVtepAddr, AddVtepRoute, AddHostRoute, SetOVNEncapIP, RouteStep
  <2>8. CASE AddFlannelRule \/ AddOobRule \/ AddSourceRoute
    BY <2>1, <2>8 DEF AddFlannelRule, AddOobRule, AddSourceRoute, RuleStep
  <2> QED
    BY <1>7, <2>2, <2>3, <2>4, <2>5, <2>6, <2>7, <2>8 DEF PassStep
<1> QED
  BY <1>1, <1>2, <1>3, <1>4, <1>5, <1>6, <1>7 DEF Next

\* Each call leaves what PassInv says of it and undoes nothing of the others.
LEMMA PassInvStep ==
  ASSUME IInv, Next
  PROVE  PassInv'
<1> USE DEF PassInv, AfterGetNode, AfterSetHostNode, AfterSetHostName,
            AfterHostFile, AfterKubeconfig, AfterArtifacts, AfterReading,
            AfterHostRoute, AfterEncap, AfterConf, AfterFlannelRule,
            hostVars, procVars, budgetVars
<1>a. TypeOK /\ PassInv /\ ControlInv /\ AllocInv
  BY DEF IInv
<1>1. CASE ReadArguments \/ TickerFires
  BY <1>1 DEF ReadArguments, TickerFires
<1>2. CASE FinishPass \/ StartDHCPServer \/ ReportReady
  BY <1>a, <1>2 DEF FinishPass, StartDHCPServer, ReportReady, ControlInv
<1>3. CASE MainStepFails \/ MainReturns \/ Crash \/ LivenessProbeFails \/ RecreatePod
  BY <1>3 DEF MainStepFails, MainReturns, Crash, LivenessProbeFails, RecreatePod,
              ProcessEnds
<1>4. CASE StartProcess \/ Interrupt \/ Stop \/ LoopReturns \/ DnsmasqDies
  BY <1>a, <1>4 DEF StartProcess, Interrupt, Stop, LoopReturns, DnsmasqDies
<1>5. CASE PassStepFails
  BY <1>5 DEF PassStepFails, Abort, ProcessEnds
<1>6. CASE SystemChanges \/ RenumberBrOvn \/ DHCPAssigns
  BY <1>a, <1>6 DEF SystemChanges, RenumberBrOvn, DHCPAssigns
<1>7. CASE PassStep
  <2> USE DEF Advance
  <2>1. ASSUME NEW at, Reject(at)
        PROVE  PassInv'
    BY <2>1 DEF Reject, Abort, ProcessEnds
  <2>2. CASE GetHostName
    BY <1>a, <2>1, <2>2 DEF GetHostName, TypeOK, ProcTypeOK
  <2>3. CASE SetKubernetesHostNodeName \/ SetHostName
    BY <1>a, <2>3
    DEF SetKubernetesHostNodeName, SetHostName, AfterIdentity, TypeOK, HostTypeOK
  <2>4. CASE WriteHostNodeNameFile
    BY <1>a, <2>4 DEF WriteHostNodeNameFile, FileStep, TypeOK, HostTypeOK
  <2>41. CASE WriteBootstrapKubeconfig
    BY <1>a, <2>41 DEF WriteBootstrapKubeconfig, FileStep, TypeOK, HostTypeOK
  <2>42. CASE WriteFilesForOVN
    BY <1>a, <2>42 DEF WriteFilesForOVN, FileStep, TypeOK, HostTypeOK
  <2>5. CASE ReconcileChassisID
    BY <1>a, <2>1, <2>5 DEF ReconcileChassisID, AfterIdentity
  <2>6. CASE ReadBrOvnAddrs
    BY <1>a, <2>1, <2>6 DEF ReadBrOvnAddrs, TypeOK, ProcTypeOK
  <2>61. CASE RunNetplanApply \/ ReadGateway
    BY <1>a, <2>1, <2>61, NoneAssumption
    DEF RunNetplanApply, ReadGateway, TypeOK, ProcTypeOK, EnvTypeOK, Envs
  <2>7. CASE SetVtepAddr
    BY <1>a, <2>7 DEF SetVtepAddr
  <2>71. CASE AddVtepRoute \/ AddHostRoute
    BY <1>a, <2>1, AllocsAssumption, <2>71
    DEF AddVtepRoute, AddHostRoute, RouteStep, AllocInv, ControlInv, TypeOK,
        ProcTypeOK, EnvTypeOK, Envs
  <2>72. CASE SetOVNEncapIP
    BY <1>a, <2>72 DEF SetOVNEncapIP, TypeOK, HostTypeOK
  <2>8. CASE AddFlannelRule \/ AddOobRule \/ AddSourceRoute
    BY <1>a, <2>1, <2>8 DEF AddFlannelRule, AddOobRule, AddSourceRoute, RuleStep
  <2> QED
    BY <1>7, <2>2, <2>3, <2>4, <2>41, <2>42, <2>5, <2>6, <2>61, <2>7, <2>71, <2>72,
       <2>8
    DEF PassStep
<1> QED
  BY <1>1, <1>2, <1>3, <1>4, <1>5, <1>6, <1>7 DEF Next

\* The readings of an undisturbed pass stay current.
LEMMA ReadingsStep ==
  ASSUME IInv, Next
  PROVE  UndisturbedReadings'
<1> USE DEF UndisturbedReadings, AfterGetNode, AfterSetHostNode, AfterSetHostName,
            AfterHostFile, AfterKubeconfig, AfterArtifacts, AfterReading,
            AfterHostRoute, AfterEncap, AfterConf, AfterFlannelRule,
            hostVars, procVars, budgetVars
<1>a. TypeOK /\ ControlInv /\ UndisturbedReadings
  BY DEF IInv
<1>b. ASSUME UNCHANGED <<env, brAddrs, mem, pass, undisturbed>>
      PROVE  UndisturbedReadings'
  BY <1>a, <1>b
<1>c. ASSUME UNCHANGED <<env, brAddrs, mem, undisturbed>>, pass \in AfterGetNode,
             pass' \notin {"netplanApply", "gateway", "vtepRoute"} \cup AfterReading
      PROVE  UndisturbedReadings'
  BY <1>a, <1>c
<1>d. ASSUME UNCHANGED <<env, brAddrs, mem, undisturbed>>, pass \in AfterReading,
             pass' # "netplanApply"
      PROVE  UndisturbedReadings'
  BY <1>a, <1>d
<1>1. CASE ReadArguments \/ TickerFires \/ FinishPass
  BY <1>1 DEF ReadArguments, TickerFires, FinishPass
<1>2. CASE StartProcess \/ StartDHCPServer \/ ReportReady \/ Interrupt \/ Stop
               \/ LoopReturns \/ DnsmasqDies
  BY <1>b, <1>2
  DEF StartProcess, StartDHCPServer, ReportReady, Interrupt, Stop, LoopReturns,
      DnsmasqDies
<1>3. CASE MainStepFails \/ MainReturns \/ Crash \/ LivenessProbeFails \/ RecreatePod
  BY <1>3 DEF MainStepFails, MainReturns, Crash, LivenessProbeFails, RecreatePod,
              ProcessEnds
<1>4. CASE PassStepFails
  BY <1>4 DEF PassStepFails, Abort, ProcessEnds
<1>5. CASE SystemChanges \/ RenumberBrOvn \/ DHCPAssigns
  BY <1>5 DEF SystemChanges, RenumberBrOvn, DHCPAssigns, Disturb
<1>6. CASE PassStep
  <2> USE DEF Advance
  <2>1. ASSUME NEW at, Reject(at)
        PROVE  UndisturbedReadings'
    BY <2>1 DEF Reject, Abort, ProcessEnds
  <2>2. CASE GetHostName
    BY <1>a, <2>1, <2>2 DEF GetHostName, TypeOK, ProcTypeOK
  <2>3. CASE SetKubernetesHostNodeName \/ SetHostName
    BY <1>c, <2>3 DEF SetKubernetesHostNodeName, SetHostName, AfterIdentity
  <2>4. CASE WriteHostNodeNameFile \/ WriteBootstrapKubeconfig
    BY <1>c, <2>4 DEF WriteHostNodeNameFile, WriteBootstrapKubeconfig, FileStep
  <2>5. CASE ReconcileChassisID
    BY <1>c, <2>1, <2>5 DEF ReconcileChassisID, AfterIdentity
  <2>6. CASE ReadBrOvnAddrs
    BY <1>a, <2>6 DEF ReadBrOvnAddrs, ControlInv, TypeOK, ProcTypeOK
  <2>7. CASE RunNetplanApply \/ ReadGateway
    BY <1>a, <2>1, <2>7
    DEF RunNetplanApply, ReadGateway, ControlInv, TypeOK, ProcTypeOK
  <2>8. CASE SetVtepAddr
    BY <1>a, <2>8 DEF SetVtepAddr, ControlInv
  <2>9. CASE AddVtepRoute
    <3>1. CASE Reject("vtepRoute")
      BY <2>1, <3>1
    <3>2. CASE Advance("vtepRoute", "hostRoute")
      <4>1. UNCHANGED <<mem, brAddrs>>
        BY <2>9, <3>2 DEF AddVtepRoute, RouteStep, Reject, Abort, ProcessEnds
      <4> QED
        BY <1>a, <3>2, <4>1 DEF ControlInv
    <3> QED
      BY <2>9, <3>1, <3>2 DEF AddVtepRoute, RouteStep
  <2>10. CASE AddHostRoute \/ SetOVNEncapIP \/ WriteFilesForOVN
    BY <1>d, <2>1, <2>10
    DEF AddHostRoute, SetOVNEncapIP, WriteFilesForOVN, RouteStep, FileStep
  <2>11. CASE AddFlannelRule \/ AddOobRule \/ AddSourceRoute
    BY <1>d, <2>1, <2>11 DEF AddFlannelRule, AddOobRule, AddSourceRoute, RuleStep
  <2> QED
    BY <1>6, <2>2, <2>3, <2>4, <2>5, <2>6, <2>7, <2>8, <2>9, <2>10, <2>11
    DEF PassStep
<1> QED
  BY <1>1, <1>2, <1>3, <1>4, <1>5, <1>6 DEF Next

\* The routes and rules of an undisturbed pass stay in place.
LEMMA KernelStep ==
  ASSUME IInv, Next
  PROVE  UndisturbedKernel'
<1> USE DEF UndisturbedKernel, AfterReading,
            AfterHostRoute, AfterEncap, AfterConf, AfterFlannelRule,
            hostVars, procVars, budgetVars
<1>a. TypeOK /\ ControlInv /\ UndisturbedKernel
  BY DEF IInv
<1>b. ASSUME pass' \notin AfterReading
      PROVE  UndisturbedKernel'
  BY <1>b
<1>c. ASSUME UNCHANGED <<env, routes, rules, sourceRoutes, mem, pass, undisturbed>>
      PROVE  UndisturbedKernel'
  BY <1>a, <1>c DEF NeedsVtepRoute
<1>1. CASE ReadArguments \/ TickerFires \/ FinishPass
  BY <1>b, <1>1 DEF ReadArguments, TickerFires, FinishPass
<1>2. CASE StartProcess \/ StartDHCPServer \/ ReportReady \/ Interrupt \/ Stop
               \/ LoopReturns \/ DnsmasqDies
  BY <1>c, <1>2
  DEF StartProcess, StartDHCPServer, ReportReady, Interrupt, Stop, LoopReturns,
      DnsmasqDies
<1>3. CASE MainStepFails \/ MainReturns \/ Crash \/ LivenessProbeFails \/ RecreatePod
  BY <1>b, <1>3 DEF MainStepFails, MainReturns, Crash, LivenessProbeFails,
                    RecreatePod, ProcessEnds
<1>4. CASE PassStepFails
  BY <1>b, <1>4 DEF PassStepFails, Abort, ProcessEnds
<1>5. CASE SystemChanges \/ RenumberBrOvn \/ DHCPAssigns
  BY <1>5 DEF SystemChanges, RenumberBrOvn, DHCPAssigns, Disturb
<1>6. CASE PassStep
  <2> USE DEF Advance
  <2>1. ASSUME NEW at, Reject(at)
        PROVE  UndisturbedKernel'
    BY <1>b, <2>1 DEF Reject, Abort, ProcessEnds
  <2>2. CASE GetHostName
    BY <1>b, <2>1, <2>2 DEF GetHostName
  <2>3. CASE SetKubernetesHostNodeName \/ SetHostName
    BY <1>b, <2>3 DEF SetKubernetesHostNodeName, SetHostName, AfterIdentity
  <2>4. CASE WriteHostNodeNameFile \/ WriteBootstrapKubeconfig
    BY <1>b, <2>4 DEF WriteHostNodeNameFile, WriteBootstrapKubeconfig, FileStep
  <2>5. CASE ReconcileChassisID
    BY <1>b, <2>1, <2>5 DEF ReconcileChassisID, AfterIdentity
  <2>6. CASE ReadBrOvnAddrs \/ RunNetplanApply
    BY <1>b, <2>1, <2>6 DEF ReadBrOvnAddrs, RunNetplanApply
  <2>7. CASE ReadGateway
    <3>1. CASE Reject("gateway")
      BY <2>1, <3>1
    <3>2. CASE Advance("gateway", "hostRoute")
      BY <1>a, <3>2 DEF ControlInv, NeedsVtepRoute
    <3> QED
      BY <2>7, <3>1, <3>2 DEF ReadGateway
  <2>8. CASE SetVtepAddr
    BY <1>b, <2>8 DEF SetVtepAddr
  <2>9. CASE AddVtepRoute
    <3>1. CASE Reject("vtepRoute")
      BY <2>1, <3>1
    <3>2. CASE Advance("vtepRoute", "hostRoute")
      <4>1. /\ pass' = "hostRoute" /\ UNCHANGED mem
            /\ NeedsVtepRoute(mem.vtep) => VtepRoute(mem.gw) \in routes'
        BY <2>9, <3>2 DEF AddVtepRoute, RouteStep, Reject, Abort, ProcessEnds
      <4> QED
        BY <4>1 DEF NeedsVtepRoute
    <3> QED
      BY <2>9, <3>1, <3>2 DEF AddVtepRoute, RouteStep
  <2>10. CASE AddHostRoute
    <3>1. CASE Reject("hostRoute")
      BY <2>1, <3>1
    <3>2. CASE Advance("hostRoute", "encap")
      <4>1. /\ pass = "hostRoute" /\ pass' = "encap"
            /\ routes' = routes \cup {HostRoute(mem.gw)}
            /\ UNCHANGED <<env, mem, undisturbed>>
        BY <2>10, <3>2 DEF AddHostRoute, RouteStep, Reject, Abort, ProcessEnds
      <4> QED
        BY <1>a, <4>1 DEF NeedsVtepRoute, HostRoute, VtepRoute
    <3> QED
      BY <2>10, <3>1, <3>2 DEF AddHostRoute, RouteStep
  <2>11. CASE SetOVNEncapIP \/ WriteFilesForOVN
    <3>1. /\ pass \in {"encap", "openConf", "writeConf"}
          /\ pass' \in {"openConf", "writeConf", "flannelRule"}
          /\ UNCHANGED <<routes, mem, undisturbed>>
      BY <2>11 DEF SetOVNEncapIP, WriteFilesForOVN, FileStep
    <3> QED
      BY <1>a, <3>1 DEF NeedsVtepRoute
  <2>12. CASE AddFlannelRule
    <3>1. CASE Reject("flannelRule")
      BY <2>1, <3>1
    <3>2. ASSUME NEW n \in FlannelNets, env.cni0 = {n},
                 RuleStep("flannelRule", "oobRule", rules \cup {FlannelRule(n)})
          PROVE  UndisturbedKernel'
      <4>1. /\ pass = "flannelRule" /\ pass' = "oobRule"
            /\ rules' = rules \cup {FlannelRule(n)}
            /\ UNCHANGED <<env, routes, mem, undisturbed>>
        BY <3>2 DEF RuleStep
      <4> QED
        BY <1>a, <3>2, <4>1 DEF NeedsVtepRoute
    <3> QED
      BY <2>12, <3>1, <3>2 DEF AddFlannelRule
  <2>13. CASE AddOobRule
    <3>1. CASE Reject("oobRule")
      BY <2>1, <3>1
    <3>2. ASSUME NEW a \in OobAddrs, env.oob = {a},
                 RuleStep("oobRule", "sourceRoute", rules \cup {OobRule(a)})
          PROVE  UndisturbedKernel'
      <4>1. /\ pass = "oobRule" /\ pass' = "sourceRoute"
            /\ rules' = rules \cup {OobRule(a)}
            /\ UNCHANGED <<env, routes, mem, undisturbed>>
        BY <3>2 DEF RuleStep
      <4> QED
        BY <1>a, <3>2, <4>1 DEF NeedsVtepRoute
    <3> QED
      BY <2>13, <3>1, <3>2 DEF AddOobRule
  <2>14. CASE AddSourceRoute
    <3>1. CASE Reject("sourceRoute")
      BY <2>1, <3>1
    <3>2. CASE Advance("sourceRoute", "done")
      <4>1. /\ pass = "sourceRoute" /\ pass' = "done"
            /\ env.defGw \in sourceRoutes'
            /\ UNCHANGED <<env, routes, rules, mem, undisturbed>>
        BY <2>14, <3>2 DEF AddSourceRoute, Reject, Abort, ProcessEnds
      <4> QED
        BY <1>a, <4>1 DEF NeedsVtepRoute
    <3> QED
      BY <2>14, <3>1, <3>2 DEF AddSourceRoute
  <2> QED
    BY <1>6, <2>2, <2>3, <2>4, <2>5, <2>6, <2>7, <2>8, <2>9, <2>10, <2>11, <2>12,
       <2>13, <2>14
    DEF PassStep
<1> QED
  BY <1>1, <1>2, <1>3, <1>4, <1>5, <1>6 DEF Next

\* What RunOnce left is never taken back by a later pass.
LEMMA StartedStep ==
  ASSUME IInv, Next
  PROVE  StartedInv'
<1> USE DEF StartedInv, hostVars, procVars, budgetVars
<1>a. TypeOK /\ PassInv /\ ControlInv /\ AllocInv /\ StartedInv
  BY DEF IInv
<1>1. CASE StartProcess \/ ReadArguments \/ TickerFires
  BY <1>a, <1>1 DEF StartProcess, ReadArguments, TickerFires
<1>2. CASE FinishPass
  <2>1. pass = "done" => /\ mem.hostName \in HostNames /\ mem.vtep \in Addrs
                         /\ ovs.hostNode = mem.hostName
                         /\ ovs.hostName = mem.hostName
                         /\ ovs.encap = mem.vtep
                         /\ mem.gw \in Gateways /\ file.conf = ConfOf(mem.vtep, mem.gw)
                         /\ Bootstrap => file.host = mem.hostName
                                            /\ file.kubeconfig = mem.hostName
    BY <1>a DEF PassInv, AfterGetNode, AfterSetHostNode, AfterSetHostName,
            AfterHostFile, AfterKubeconfig, AfterArtifacts, AfterReading,
            AfterHostRoute, AfterEncap, AfterConf, AfterFlannelRule
  <2>2. pass = "done" => file.conf # None
    BY <2>1, NoneAssumption, NetAssumption DEF ConfOf
  <2> QED
    BY <1>a, <1>2, <2>1, <2>2, NoneAssumption DEF FinishPass
<1>21. CASE StartDHCPServer
  <2>1. mem.vtep \in Addrs /\ mem.gw \in Gateways
    BY <1>a, <1>21, AllocsAssumption
    DEF StartDHCPServer, ControlInv, AllocInv, TypeOK, EnvTypeOK, Envs
  <2>2. DhcpArgs(mem.vtep, mem.gw) # None
    BY <2>1, NoneAssumption, NetAssumption DEF DhcpArgs
  <2> QED
    BY <1>a, <1>21, <2>2 DEF StartDHCPServer, DhcpArgs
<1>3. CASE MainStepFails \/ MainReturns \/ Crash \/ LivenessProbeFails \/ RecreatePod
  BY <1>3 DEF MainStepFails, MainReturns, Crash, LivenessProbeFails, RecreatePod,
              ProcessEnds
<1>4. CASE ReportReady \/ Interrupt \/ Stop \/ LoopReturns \/ DnsmasqDies
  BY <1>a, <1>4 DEF ReportReady, Interrupt, Stop, LoopReturns, DnsmasqDies
<1>5. CASE PassStepFails
  BY <1>a, <1>5 DEF PassStepFails, Abort, ProcessEnds
<1>6. CASE SystemChanges \/ RenumberBrOvn \/ DHCPAssigns
  BY <1>a, <1>6 DEF SystemChanges, RenumberBrOvn, DHCPAssigns, Disturb
<1>7. CASE PassStep
  <2> USE DEF Advance
  <2>1. ASSUME NEW at, Reject(at), UNCHANGED <<ovs, file>>
        PROVE  StartedInv'
    BY <1>a, <2>1 DEF Reject, Abort, ProcessEnds
  <2>2. CASE GetHostName
    BY <1>a, <2>1, <2>2 DEF GetHostName, TypeOK, ProcTypeOK
  <2>3. CASE SetKubernetesHostNodeName \/ SetHostName
    BY <1>a, <2>3, NoneAssumption
    DEF SetKubernetesHostNodeName, SetHostName, TypeOK, HostTypeOK, PassInv,
        AfterGetNode, AfterSetHostNode
  <2>4. CASE WriteHostNodeNameFile \/ WriteBootstrapKubeconfig
    BY <1>a, <2>4, NoneAssumption
    DEF WriteHostNodeNameFile, WriteBootstrapKubeconfig, FileStep, TypeOK, HostTypeOK,
        PassInv, AfterGetNode, AfterSetHostNode, AfterSetHostName, AfterHostFile
  <2>41. CASE WriteFilesForOVN
    <3>1. pass = "writeConf" => ConfOf(mem.vtep, mem.gw) # None
      BY <1>a, NoneAssumption, NetAssumption
      DEF ConfOf, PassInv, AfterReading, AfterHostRoute, AfterEncap
    <3> QED
      BY <1>a, <2>41, <3>1, NoneAssumption
      DEF WriteFilesForOVN, FileStep, TypeOK, HostTypeOK
  <2>5. CASE ReconcileChassisID
    BY <1>a, <2>1, <2>5 DEF ReconcileChassisID, AfterIdentity
  <2>6. CASE ReadBrOvnAddrs \/ RunNetplanApply \/ ReadGateway
    BY <1>a, <2>1, <2>6
    DEF ReadBrOvnAddrs, RunNetplanApply, ReadGateway, ControlInv, TypeOK, ProcTypeOK
  <2>8. CASE SetVtepAddr \/ AddVtepRoute \/ AddHostRoute
    BY <1>a, <2>1, <2>8
    DEF SetVtepAddr, ControlInv, AddVtepRoute, AddHostRoute, RouteStep
  <2>10. CASE SetOVNEncapIP
    BY <1>a, <2>10, NoneAssumption
    DEF SetOVNEncapIP, PassInv, AfterReading, AfterHostRoute, TypeOK, HostTypeOK
  <2>11. CASE AddFlannelRule \/ AddOobRule \/ AddSourceRoute
    BY <1>a, <2>1, <2>11 DEF AddFlannelRule, AddOobRule, AddSourceRoute, RuleStep
  <2> QED
    BY <1>7, <2>2, <2>3, <2>4, <2>41, <2>5, <2>6, <2>8, <2>10, <2>11
    DEF PassStep
<1> QED
  BY <1>1, <1>2, <1>21, <1>3, <1>4, <1>5, <1>6, <1>7 DEF Next

-----------------------------------------------------------------------------
\* IInv holds in every state the program reaches.
THEOREM Inductive == Spec => []IInv
<1>1. Init => IInv
  <2> SUFFICES ASSUME Init PROVE IInv
    OBVIOUS
  <2>1. EnvTypeOK
    <3>1. changes \in 0..MaxChanges /\ faults \in 0..MaxFaults
      BY BoundAssumption DEF Init
    <3> QED
      BY <3>1 DEF Init, EnvTypeOK
  <2>2. HostTypeOK
    <3>1. /\ ovs \in [hostNode : HostNames \cup {None},
                      hostName : HostNames \cup {None}, encap : Addrs \cup {None}]
          /\ file \in [host : HostNames \cup {None, Torn},
                       kubeconfig : HostNames \cup {None, Torn},
                       conf : [nextHop : Gateways, subnet : Nets]
                                  \cup {None, Torn}]
      BY DEF Init
    <3>2. /\ brAddrs = {} /\ routes = {} /\ rules = {} /\ sourceRoutes = {}
          /\ applied = FALSE
      BY DEF Init
    <3>3. /\ brAddrs \subseteq Addrs /\ sourceRoutes \subseteq OobGateways
          /\ routes \subseteq [dst : {"hostCIDR", "vtepCIDR"}, gw : Gateways]
      BY <3>2
    <3>4. rules \subseteq [prio : {31000, 32000},
                           from : FlannelNets \cup OobAddrs]
      BY <3>2
    <3>5. applied \in BOOLEAN
      BY <3>2
    <3> QED
      BY <3>1, <3>3, <3>4, <3>5 DEF HostTypeOK
  <2>3. ProcTypeOK /\ pass = "idle"
    <3>1. NoMem \in [hostName : HostNames \cup {None}, vtep : Addrs \cup {None},
                     gw : Gateways \cup {None}]
      BY DEF NoMem
    <3>2. /\ main = "down" /\ loop = FALSE /\ pass = "idle" /\ mem = NoMem
          /\ dhcpCmd = None /\ dnsmasq = FALSE /\ ready = FALSE /\ reading = None
      BY DEF Init
    <3> QED
      BY <3>1, <3>2 DEF ProcTypeOK
  <2>4. ControlInv /\ AllocInv /\ StartedInv
    BY DEF Init, ControlInv, AllocInv, StartedInv
  <2>5. PassInv /\ UndisturbedReadings /\ UndisturbedKernel
    BY DEF Init, PassInv, UndisturbedReadings, UndisturbedKernel, AfterGetNode,
           AfterSetHostNode, AfterSetHostName, AfterHostFile, AfterKubeconfig,
           AfterArtifacts, AfterReading, AfterHostRoute, AfterEncap, AfterConf,
           AfterFlannelRule
  <2> QED
    BY <2>1, <2>2, <2>3, <2>4, <2>5 DEF IInv, TypeOK
<1>2. IInv /\ [Next]_vars => IInv'
  <2>1. CASE IInv /\ Next
    <3>1. TypeOK' /\ ControlInv' /\ AllocInv'
      BY <2>1, EnvStep, ProcStep, HostStep, ControlStep, AllocStep DEF IInv, TypeOK
    <3> QED
      BY <2>1, <3>1, PassInvStep, ReadingsStep, KernelStep, StartedStep DEF IInv
  <2>2. CASE IInv /\ UNCHANGED vars
    <3> USE DEF vars, hostVars, procVars, budgetVars
    <3>1. EnvTypeOK' /\ HostTypeOK' /\ ProcTypeOK'
      BY <2>2, HostUntouched, ProcUntouched DEF IInv, TypeOK, EnvTypeOK
    <3>2. ControlInv' /\ AllocInv' /\ StartedInv'
      BY <2>2 DEF IInv, ControlInv, AllocInv, StartedInv
    <3>3. PassInv'
      BY <2>2 DEF IInv, PassInv, ConfOf
    <3>4. UndisturbedReadings'
      BY <2>2 DEF IInv, UndisturbedReadings
    <3>5. UndisturbedKernel'
      <4>1. UNCHANGED <<env, routes, rules, sourceRoutes, mem, pass, undisturbed>>
        BY <2>2
      <4> QED
        BY <2>2, <4>1 DEF IInv, UndisturbedKernel, NeedsVtepRoute
    <3> QED
      BY <2>2, <3>1, <3>2, <3>3, <3>4, <3>5 DEF IInv, TypeOK
  <2> QED
    BY <2>1, <2>2
<1>3. QED
  BY <1>1, <1>2, PTL DEF Spec

\* Every variable keeps its type through every call, failure, restart and
\* change. This does not follow from the types alone: that no nil gateway or
\* address is published takes the order of the calls.
THEOREM TypeCorrect == Spec => []TypeOK
<1>1. IInv => TypeOK
  BY DEF IInv
<1> QED
  BY <1>1, Inductive, PTL

\* A pass that ends with nil undisturbed publishes its surroundings, whatever
\* earlier passes, failures and restarts left behind.
THEOREM PassesPublish == Spec => []UndisturbedPassPublishes
<1>1. IInv => UndisturbedPassPublishes
  <2> SUFFICES ASSUME IInv, pass = "done", undisturbed
               PROVE  /\ IdentityPublished /\ TunnelPublished /\ ConfPublished
                      /\ SourceRoutingPublished
    BY DEF UndisturbedPassPublishes
  <2> USE DEF IInv, PassInv, UndisturbedReadings, UndisturbedKernel, AfterGetNode,
              AfterSetHostNode, AfterSetHostName, AfterHostFile, AfterKubeconfig,
              AfterArtifacts, AfterReading, AfterHostRoute, AfterEncap, AfterConf,
              AfterFlannelRule
  <2>1. IdentityPublished
    BY DEF IdentityPublished
  <2>2. /\ ovs.encap = mem.vtep /\ file.conf = ConfOf(mem.vtep, mem.gw)
        /\ HostRoute(mem.gw) \in routes
        /\ NeedsVtepRoute(mem.vtep) => VtepRoute(mem.gw) \in routes
    OBVIOUS
  <2>3. CASE Internal
    <3>1. /\ mem.vtep = env.alloc.addr /\ mem.gw = env.alloc.gw
          /\ mem.vtep \in brAddrs
      BY <2>3 DEF AllocInv, ControlInv
    <3> QED
      BY <2>1, <2>2, <2>3, <3>1
      DEF TunnelPublished, ConfPublished, SourceRoutingPublished
  <2>4. CASE ~Internal
    <3>1. brAddrs = {mem.vtep} /\ mem.gw = env.discGw
      BY <2>4
    <3> QED
      BY <2>1, <2>2, <2>4, <3>1
      DEF TunnelPublished, ConfPublished, SourceRoutingPublished
  <2> QED
    BY <2>3, <2>4
<1> QED
  BY <1>1, Inductive, PTL

\* A pass that ends with nil publishes one host name and one reading, however
\* its surroundings changed while it ran.
THEOREM PassesAgree == Spec => []PassPublishesOneReading
<1>1. IInv => PassPublishesOneReading
  <2> SUFFICES ASSUME IInv, pass = "done" PROVE PassPublishesOneReading
    BY DEF PassPublishesOneReading
  <2>1. /\ mem.vtep \in Addrs /\ mem.gw \in Gateways
        /\ reading = [addr |-> mem.vtep, gw |-> mem.gw]
        /\ ovs.encap = mem.vtep /\ file.conf = ConfOf(mem.vtep, mem.gw)
        /\ ovs.hostNode = ovs.hostName
        /\ Bootstrap => file.host = ovs.hostName /\ file.kubeconfig = ovs.hostName
    BY DEF IInv, PassInv, AfterSetHostNode, AfterSetHostName, AfterHostFile,
           AfterKubeconfig, AfterArtifacts, AfterReading, AfterHostRoute,
           AfterEncap, AfterConf, AfterFlannelRule
  <2> QED
    BY <2>1, NoneAssumption DEF PassPublishesOneReading
<1> QED
  BY <1>1, Inductive, PTL

\* A ready container has published what the other containers wait for.
THEOREM ReadyCorrect == Spec => []ReadyMeansProvisioned
<1>1. IInv => ReadyMeansProvisioned
  BY DEF IInv, TypeOK, ProcTypeOK, ControlInv, StartedInv, ReadyMeansProvisioned
<1> QED
  BY <1>1, Inductive, PTL

\* A live dnsmasq serves the network of the published tunnel endpoint, with the route
\* that goes with it.
THEOREM DhcpCorrect == Spec => []DhcpServesThisVtep
<1>1. IInv => DhcpServesThisVtep
  BY DEF IInv, TypeOK, ProcTypeOK, ControlInv, AllocInv, StartedInv, DhcpServesThisVtep
<1> QED
  BY <1>1, Inductive, PTL

\* No step publishes a gateway, network or address but those that the running
\* pass has read together.
THEOREM PublishesReadings == Spec => PublishesWhatOnePassRead
<1> DEFINE OneReading ==
      /\ file'.conf \notin {file.conf, Torn, None} =>
             reading # None /\ file'.conf = ConfOf(reading.addr, reading.gw)
      /\ ovs'.encap # ovs.encap => reading # None /\ ovs'.encap = reading.addr
<1>1. IInv /\ [Next]_vars => [OneReading]_vars
  <2> SUFFICES ASSUME IInv, Next PROVE OneReading
    OBVIOUS
  <2>0. TypeOK /\ HostTypeOK /\ PassInv
    BY DEF IInv, TypeOK
  <2>1. ASSUME UNCHANGED <<file, ovs>>
        PROVE  OneReading
    BY <2>1
  <2>2. CASE SetKubernetesHostNodeName \/ SetHostName
    BY <2>0, <2>2 DEF SetKubernetesHostNodeName, SetHostName, HostTypeOK
  <2>3. CASE WriteHostNodeNameFile \/ WriteBootstrapKubeconfig
    BY <2>0, <2>3
    DEF WriteHostNodeNameFile, WriteBootstrapKubeconfig, FileStep, HostTypeOK
  <2>4. pass \in {"encap", "openConf", "writeConf"} =>
            /\ mem.vtep \in Addrs /\ mem.gw \in Gateways
            /\ reading = [addr |-> mem.vtep, gw |-> mem.gw]
    BY <2>0 DEF PassInv, AfterReading, AfterHostRoute, AfterEncap
  <2>5. CASE SetOVNEncapIP
    BY <2>0, <2>4, <2>5, NoneAssumption DEF SetOVNEncapIP, Advance, HostTypeOK
  <2>6. CASE WriteFilesForOVN
    BY <2>0, <2>4, <2>6, NoneAssumption
    DEF WriteFilesForOVN, FileStep, Advance, HostTypeOK
  <2>7. CASE RecreatePod
    BY <2>0, <2>7 DEF RecreatePod, HostTypeOK
  <2>8. CASE PassStep
    <3> USE DEF hostVars
    <3>1. CASE GetHostName \/ ReconcileChassisID \/ ReadBrOvnAddrs \/ ReadGateway
                   \/ RunNetplanApply
      BY <2>1, <3>1
      DEF GetHostName, ReconcileChassisID, ReadBrOvnAddrs, ReadGateway,
          RunNetplanApply
    <3>2. CASE SetVtepAddr \/ AddVtepRoute \/ AddHostRoute
      BY <2>1, <3>2 DEF SetVtepAddr, AddVtepRoute, AddHostRoute, RouteStep
    <3>3. CASE AddFlannelRule \/ AddOobRule \/ AddSourceRoute
      BY <2>1, <3>3 DEF AddFlannelRule, AddOobRule, AddSourceRoute, RuleStep
    <3> QED
      BY <2>2, <2>3, <2>5, <2>6, <2>8, <3>1, <3>2, <3>3 DEF PassStep
  <2>9. CASE StartProcess \/ ReadArguments \/ TickerFires \/ FinishPass \/ StartDHCPServer
                 \/ ReportReady \/ MainStepFails \/ Interrupt \/ Stop
                 \/ LoopReturns \/ MainReturns \/ Crash \/ DnsmasqDies
                 \/ LivenessProbeFails \/ PassStepFails \/ SystemChanges
                 \/ RenumberBrOvn \/ DHCPAssigns
    BY <2>1, <2>9
    DEF StartProcess, ReadArguments, TickerFires, FinishPass, StartDHCPServer, ReportReady,
        MainStepFails, Interrupt, Stop, LoopReturns, MainReturns, Crash,
        DnsmasqDies, LivenessProbeFails, PassStepFails, SystemChanges,
        RenumberBrOvn, DHCPAssigns, hostVars
  <2> QED
    BY <2>7, <2>8, <2>9 DEF Next
<1> QED
  BY <1>1, Inductive, PTL DEF Spec, PublishesWhatOnePassRead

-----------------------------------------------------------------------------
(***************************************************************************)
(* The safety core of EventuallyPublished: a pass is refused only for a    *)
(* cause in its surroundings, one that ends with nil has published them,   *)
(* and what is published stays.                                            *)
(***************************************************************************)

\* A call of an undisturbed pass is refused only for one of the causes.
LEMMA RefusalStep ==
  ASSUME IInv, Next, PassRefused, undisturbed, ~Cancelled, Provisionable
  PROVE  ~Internal /\ brAddrs = {}
<1> USE DEF PassSteps, budgetVars, PassRefused
<1>0. /\ ControlInv /\ UndisturbedReadings /\ SurroundingsGood /\ ~StaleRouteInTheWay
      /\ changes \in Nat /\ faults \in Nat /\ brAddrs \subseteq Addrs
  BY BoundAssumption DEF IInv, TypeOK, EnvTypeOK, HostTypeOK, Provisionable
<1>1. CASE MainStepFails \/ Interrupt \/ Crash \/ DnsmasqDies \/ PassStepFails
               \/ SystemChanges \/ RenumberBrOvn \/ RecreatePod
  <2>1. faults' = faults + 1 \/ changes' = changes + 1
    BY <1>1 DEF MainStepFails, Interrupt, Crash, DnsmasqDies, PassStepFails,
                SystemChanges, RenumberBrOvn, RecreatePod, Disturb
  <2>2. changes' = changes /\ faults' = faults
    OBVIOUS
  <2> QED
    BY <1>0, <2>1, <2>2
<1>2. CASE StartProcess \/ ReadArguments \/ TickerFires \/ FinishPass \/ StartDHCPServer
               \/ ReportReady \/ Stop \/ LoopReturns \/ MainReturns
               \/ LivenessProbeFails \/ DHCPAssigns
  BY <1>2 DEF StartProcess, ReadArguments, TickerFires, FinishPass, StartDHCPServer,
              ReportReady, Stop, LoopReturns, MainReturns, LivenessProbeFails,
              DHCPAssigns, ProcessEnds
<1>3. CASE PassStep
  <2> USE DEF Advance, Reject
  <2>1. CASE GetHostName \/ ReconcileChassisID
    BY <1>0, <2>1 DEF GetHostName, ReconcileChassisID, SurroundingsGood, AfterIdentity
  <2>2. CASE SetKubernetesHostNodeName \/ SetHostName \/ WriteHostNodeNameFile
                 \/ WriteBootstrapKubeconfig \/ SetVtepAddr \/ SetOVNEncapIP
                 \/ WriteFilesForOVN \/ ReadBrOvnAddrs
    BY <2>2 DEF SetKubernetesHostNodeName, SetHostName, WriteHostNodeNameFile,
                WriteBootstrapKubeconfig, SetVtepAddr, SetOVNEncapIP,
                WriteFilesForOVN, ReadBrOvnAddrs, FileStep, AfterIdentity
  <2>3. CASE RunNetplanApply
    <3>1. pass = "netplanApply" /\ ~Internal /\ Cardinality(brAddrs) # 1
      BY <1>0, <2>3 DEF RunNetplanApply, ControlInv, UndisturbedReadings
    <3>2. Cardinality(brAddrs) <= 1
      BY <1>0, <3>1 DEF SurroundingsGood
    <3>3. Cardinality(brAddrs) \in Nat
             /\ (Cardinality(brAddrs) = 0 <=> brAddrs = {})
      BY <1>0, AddrsAssumption, FS_Subset, FS_CardinalityType, FS_EmptySet
    <3> QED
      BY <3>1, <3>2, <3>3
  <2>4. CASE ReadGateway
    BY <1>0, <2>4 DEF ReadGateway, ControlInv, SurroundingsGood
  <2>5. pass \in {"vtepRoute", "hostRoute"} =>
            mem.gw = IF Internal THEN env.alloc.gw ELSE env.discGw
    BY <1>0 DEF IInv, ControlInv, AllocInv, UndisturbedReadings, AfterReading,
                AfterHostRoute
  <2>6. CASE AddVtepRoute
    <3>1. pass = "vtepRoute" /\ mem.vtep = env.alloc.addr
      BY <1>0, <2>6 DEF AddVtepRoute, IInv, ControlInv, AllocInv
    <3>2. NeedsVtepRoute(mem.vtep) /\ Refused(VtepRoute(mem.gw), routes)
      BY <2>6 DEF AddVtepRoute, RouteStep
    <3> QED
      BY <1>0, <2>5, <3>1, <3>2 DEF StaleRouteInTheWay
  <2>7. CASE AddHostRoute
    <3>1. pass = "hostRoute" /\ Refused(HostRoute(mem.gw), routes)
      BY <2>7 DEF AddHostRoute, RouteStep
    <3> QED
      BY <1>0, <2>5, <3>1 DEF StaleRouteInTheWay
  <2>8. CASE AddFlannelRule \/ AddOobRule
    BY <1>0, <2>8 DEF AddFlannelRule, AddOobRule, RuleStep, SurroundingsGood
  <2>9. CASE AddSourceRoute
    BY <1>0, <2>9 DEF AddSourceRoute, SurroundingsGood, StaleRouteInTheWay
  <2> QED
    BY <1>3, <2>1, <2>2, <2>3, <2>4, <2>6, <2>7, <2>8, <2>9 DEF PassStep
<1> QED
  BY <1>1, <1>2, <1>3 DEF Next

\* Nothing that earlier passes, failures and restarts have left is in the way of a
\* pass: routes, rules, addresses and files that are there already are no errors.
THEOREM RefusesForCause == Spec => RefusedForCause
<1>1. IInv /\ [Next]_vars =>
          [(PassRefused /\ undisturbed) =>
               \/ Cancelled \/ ~Provisionable
               \/ ~Internal /\ brAddrs = {}]_vars
  BY RefusalStep
<1> QED
  BY <1>1, Inductive, PTL DEF Spec, RefusedForCause

\* An undisturbed pass that ends with nil leaves everything settled.
THEOREM PassesSettle == Spec => [](pass = "done" /\ undisturbed => Settled)
<1>1. UndisturbedPassPublishes => (pass = "done" /\ undisturbed => Settled)
  BY DEF UndisturbedPassPublishes, IdentityPublished, ConfPublished, Settled,
         Published, FilesSettled
<1> QED
  BY <1>1, PassesPublish, PTL

\* What is published is left as it is by a step that changes neither the
\* surroundings nor an external id and only adds to the kernel's addresses, routes
\* and rules,
LEMMA PublishedGrows ==
  ASSUME Published, UNCHANGED <<env, ovs>>,
         brAddrs \subseteq brAddrs', ~Internal => brAddrs' = brAddrs,
         routes \subseteq routes', rules \subseteq rules',
         sourceRoutes \subseteq sourceRoutes', FilesSettled'
  PROVE  Published'
<1>1. TunnelPublished'
  BY DEF Published, TunnelPublished, NeedsVtepRoute, Internal
<1>2. SourceRoutingPublished'
  BY DEF Published, SourceRoutingPublished
<1> QED
  BY <1>1, <1>2 DEF Published

\* its files by one that leaves them alone, unless it drops a pass that has just
\* truncated one,
LEMMA FilesStay ==
  ASSUME FilesSettled, UNCHANGED <<env, ovs, file>>,
         pass' = pass \/ pass \notin {"writeHostFile", "writeKubeconfig", "writeConf"}
  PROVE  FilesSettled'
BY DEF FilesSettled, ConfOf, Internal

\* and both by a step that goes on, or ends, with no more than that.
LEMMA SettledStays ==
  ASSUME Settled, ~CutsFileShort, UNCHANGED <<env, ovs, file, routes, rules,
                                              sourceRoutes, brAddrs>>,
         \/ pass' = "idle"
         \/ pass = "idle" /\ undisturbed' = TRUE
         \/ pass' = pass /\ undisturbed' = undisturbed
  PROVE  Settled'
<1>1. FilesSettled'
  BY FilesStay DEF Settled, Published, CutsFileShort
<1>2. Published'
  BY <1>1, PublishedGrows DEF Settled
<1> QED
  BY <1>2 DEF Settled

\* A call of an undisturbed pass repeats what is published.
LEMMA PassRepeats ==
  ASSUME IInv, PassStep, Settled, ~CutsFileShort
  PROVE  Settled'
<1> USE DEF hostVars, Advance
<1>0. HostTypeOK /\ ProcTypeOK /\ ControlInv /\ AllocInv /\ PassInv /\ UndisturbedReadings
  BY DEF IInv, TypeOK
<1>1. ASSUME NEW at, Reject(at), UNCHANGED hostVars
      PROVE  Settled'
  <2>1. pass' = "idle" /\ UNCHANGED env
    BY <1>1 DEF Reject, Abort, ProcessEnds
  <2> QED
    BY <1>1, <2>1, SettledStays
<1>2. ASSUME pass # "idle", UNCHANGED <<env, ovs, undisturbed>>,
             brAddrs \subseteq brAddrs', ~Internal => brAddrs' = brAddrs,
             routes \subseteq routes', rules \subseteq rules',
             sourceRoutes \subseteq sourceRoutes', FilesSettled'
      PROVE  Settled'
  <2>1. Published'
    BY <1>2, PublishedGrows DEF Settled
  <2> QED
    BY <1>2, <2>1 DEF Settled
<1>3. ASSUME pass \notin {"idle", "writeHostFile", "writeKubeconfig", "writeConf"},
             UNCHANGED <<env, ovs, file, undisturbed>>,
             brAddrs \subseteq brAddrs', ~Internal => brAddrs' = brAddrs,
             routes \subseteq routes', rules \subseteq rules',
             sourceRoutes \subseteq sourceRoutes'
      PROVE  Settled'
  <2>1. FilesSettled'
    BY <1>3, FilesStay DEF Settled, Published
  <2> QED
    BY <1>2, <1>3, <2>1
<1>4. pass # "idle" => undisturbed /\ Published
  BY DEF Settled
<1>5. CASE GetHostName \/ ReconcileChassisID \/ ReadBrOvnAddrs \/ ReadGateway
  BY <1>1, <1>3, <1>5 DEF GetHostName, ReconcileChassisID, ReadBrOvnAddrs, ReadGateway
<1>6. CASE RunNetplanApply
  BY <1>1, <1>6, SettledStays DEF RunNetplanApply
<1>7. CASE SetKubernetesHostNodeName \/ SetHostName
  <2>1. /\ pass \in {"setHostNode", "setHostName"}
        /\ UNCHANGED <<env, file, undisturbed, brAddrs, routes, rules, sourceRoutes>>
        /\ \/ ovs' = [ovs EXCEPT !.hostNode = mem.hostName]
           \/ ovs' = [ovs EXCEPT !.hostName = mem.hostName]
    BY <1>7 DEF SetKubernetesHostNodeName, SetHostName
  <2>2. ovs.hostNode = mem.hostName /\ ovs.hostName = mem.hostName
    BY <1>0, <1>4, <2>1 DEF UndisturbedReadings, Published, AfterGetNode,
                            AfterSetHostNode
  <2>3. UNCHANGED ovs
    BY <1>0, <2>1, <2>2 DEF HostTypeOK
  <2> QED
    BY <1>3, <2>1, <2>3
<1>8. pass \in {"openConf", "writeConf", "encap"} =>
          /\ mem.vtep = ovs.encap
          /\ mem.gw = IF Internal THEN env.alloc.gw ELSE env.discGw
  <2>1. ASSUME pass \in {"openConf", "writeConf", "encap"}, Internal
        PROVE  mem.vtep = ovs.encap /\ mem.gw = env.alloc.gw
    BY <1>0, <1>4, <2>1 DEF ControlInv, AllocInv, Published, TunnelPublished
  <2>2. ASSUME pass \in {"openConf", "writeConf", "encap"}, ~Internal
        PROVE  mem.vtep = ovs.encap /\ mem.gw = env.discGw
    BY <1>0, <1>4, <2>2 DEF UndisturbedReadings, Published, TunnelPublished,
                            AfterReading, AfterHostRoute, AfterEncap
  <2> QED
    BY <2>1, <2>2
<1>9. CASE SetOVNEncapIP
  <2>1. /\ pass = "encap" /\ ovs' = [ovs EXCEPT !.encap = mem.vtep]
        /\ UNCHANGED <<env, file, undisturbed, brAddrs, routes, rules, sourceRoutes>>
    BY <1>9 DEF SetOVNEncapIP
  <2>2. UNCHANGED ovs
    BY <1>0, <1>8, <2>1 DEF HostTypeOK
  <2> QED
    BY <1>3, <2>1, <2>2
<1>10. CASE WriteHostNodeNameFile \/ WriteBootstrapKubeconfig \/ WriteFilesForOVN
  <2>1. /\ pass # "idle"
        /\ UNCHANGED <<env, ovs, undisturbed, brAddrs, routes, rules, sourceRoutes>>
    BY <1>10 DEF WriteHostNodeNameFile, WriteBootstrapKubeconfig, WriteFilesForOVN,
                 FileStep
  <2>2. FilesSettled
    BY <1>4, <2>1 DEF Published
  <2>3. CASE WriteHostNodeNameFile \/ WriteBootstrapKubeconfig
    <3>1. mem.hostName = HostNameOf(env.labels)
      BY <1>0, <1>4, <2>1, <2>3
      DEF WriteHostNodeNameFile, WriteBootstrapKubeconfig, FileStep,
          UndisturbedReadings, AfterGetNode, AfterSetHostNode, AfterSetHostName,
          AfterHostFile
    <3>2. FilesSettled'
      BY <1>0, <2>1, <2>2, <2>3, <3>1
      DEF WriteHostNodeNameFile, WriteBootstrapKubeconfig, FileStep, FilesSettled,
          ConfOf, Internal, HostTypeOK
    <3> QED
      BY <1>2, <2>1, <3>2
  <2>4. CASE WriteFilesForOVN
    <3>1. FilesSettled'
      BY <1>0, <1>8, <2>1, <2>2, <2>4
      DEF WriteFilesForOVN, FileStep, FilesSettled, ConfOf, Internal, HostTypeOK
    <3> QED
      BY <1>2, <2>1, <3>1
  <2> QED
    BY <1>10, <2>3, <2>4
<1>11. CASE SetVtepAddr
  BY <1>0, <1>3, <1>11 DEF SetVtepAddr, ControlInv
<1>12. CASE AddVtepRoute \/ AddHostRoute
  BY <1>1, <1>3, <1>12 DEF AddVtepRoute, AddHostRoute, RouteStep
<1>13. CASE AddFlannelRule \/ AddOobRule \/ AddSourceRoute
  BY <1>1, <1>3, <1>13 DEF AddFlannelRule, AddOobRule, AddSourceRoute, RuleStep
<1> QED
  BY <1>5, <1>6, <1>7, <1>9, <1>10, <1>11, <1>12, <1>13 DEF PassStep

\* What is published stays: later passes, failures, crashes and restarts take
\* nothing of it back while its surroundings stay, unless they cut short the
\* rewriting of a file.
THEOREM PublishedStays == Spec => StaysPublished
<1> DEFINE Stays ==
      (Settled /\ changes' = changes /\ ~CutsFileShort) => Settled'
<1>1. IInv /\ [Next]_vars => [Stays]_vars
  <2> SUFFICES ASSUME IInv, Next, Settled, changes' = changes, ~CutsFileShort
               PROVE  Settled'
    OBVIOUS
  <2> USE DEF hostVars
  <2>0. /\ ControlInv /\ undisturbed \in BOOLEAN /\ changes \in Nat
        /\ Published
    BY BoundAssumption DEF IInv, TypeOK, EnvTypeOK, Settled
  <2>1. CASE ReadArguments \/ TickerFires
    <3>1. /\ pass = "idle" /\ undisturbed' = TRUE
          /\ UNCHANGED <<env, ovs, file, routes, rules, sourceRoutes, brAddrs>>
      BY <2>0, <2>1 DEF ReadArguments, TickerFires, ControlInv
    <3> QED
      BY <3>1, SettledStays
  <2>2. CASE FinishPass \/ PassStepFails \/ MainStepFails \/ MainReturns \/ Crash
                 \/ LivenessProbeFails
    <3>1. /\ pass' = "idle"
          /\ UNCHANGED <<env, ovs, file, routes, rules, sourceRoutes, brAddrs>>
      BY <2>2 DEF FinishPass, PassStepFails, MainStepFails, MainReturns, Crash,
                  LivenessProbeFails, Abort, ProcessEnds
    <3> QED
      BY <3>1, SettledStays
  <2>3. CASE StartProcess \/ StartDHCPServer \/ ReportReady \/ Interrupt \/ Stop
                 \/ LoopReturns \/ DnsmasqDies
    <3>1. UNCHANGED <<env, ovs, file, routes, rules, sourceRoutes, brAddrs, pass,
                      undisturbed>>
      BY <2>3 DEF StartProcess, StartDHCPServer, ReportReady, Interrupt, Stop,
                  LoopReturns, DnsmasqDies
    <3> QED
      BY <3>1, SettledStays
  <2>4. CASE SystemChanges \/ RenumberBrOvn \/ RecreatePod
    <3>1. changes' = changes + 1
      BY <2>4 DEF SystemChanges, RenumberBrOvn, RecreatePod, Disturb
    <3> QED
      BY <2>0, <3>1
  <2>5. CASE DHCPAssigns
    BY <2>0, <2>5 DEF DHCPAssigns, Published, TunnelPublished
  <2>6. CASE PassStep
    BY <2>6, PassRepeats
  <2> QED
    BY <2>1, <2>2, <2>3, <2>4, <2>5, <2>6 DEF Next
<1> QED
  BY <1>1, Inductive, PTL DEF Spec, StaysPublished

-----------------------------------------------------------------------------
\* A step of the provisioner is a step of PublishedReading, or none.
LEMMA StepSimulation == IInv /\ [Next]_vars => [Promise!Next]_(Promise!vars)
<1> SUFFICES ASSUME IInv, [Next]_vars PROVE [Promise!Next]_(Promise!vars)
  OBVIOUS
<1> USE DEF hostVars, procVars, Promise!vars
<1>0. TypeOK /\ HostTypeOK /\ ProcTypeOK /\ ProcTypeOK' /\ PassInv
  <2>1. CASE Next
    BY <2>1, ProcStep DEF IInv, TypeOK
  <2>2. CASE UNCHANGED vars
    BY <2>2, ProcUntouched DEF IInv, TypeOK, vars
  <2> QED
    BY <2>1, <2>2 DEF IInv, TypeOK
<1>1. ASSUME UNCHANGED <<ovs, file>>
      PROVE  [Promise!Next]_(Promise!vars)
  <2>1. reading' \in [addr : Addrs, gw : Gateways] \cup {None}
    BY <1>0 DEF ProcTypeOK
  <2> QED
    BY <1>1, <2>1 DEF Promise!Next, Promise!Read
<1>2. ASSUME UNCHANGED <<reading, ovs.encap, file.conf>>
      PROVE  [Promise!Next]_(Promise!vars)
  BY <1>2
<1>3. pass \in {"encap", "openConf", "writeConf"} =>
          /\ mem.vtep \in Addrs /\ mem.gw \in Gateways
          /\ reading = [addr |-> mem.vtep, gw |-> mem.gw] /\ reading # None
  BY <1>0, NoneAssumption DEF PassInv, AfterReading, AfterHostRoute, AfterEncap
<1>4. CASE SetKubernetesHostNodeName \/ SetHostName
  BY <1>0, <1>2, <1>4 DEF SetKubernetesHostNodeName, SetHostName, HostTypeOK
<1>5. CASE WriteHostNodeNameFile \/ WriteBootstrapKubeconfig
  BY <1>0, <1>2, <1>5
  DEF WriteHostNodeNameFile, WriteBootstrapKubeconfig, FileStep, HostTypeOK
<1>6. CASE SetOVNEncapIP
  <2>1. /\ pass = "encap" /\ ovs'.encap = mem.vtep
        /\ UNCHANGED <<reading, file>>
    BY <1>0, <1>6 DEF SetOVNEncapIP, Advance, HostTypeOK
  <2> QED
    BY <1>3, <2>1 DEF Promise!Next, Promise!PublishEndpoint
<1>7. CASE WriteFilesForOVN
  <2>1. /\ pass \in {"openConf", "writeConf"}
        /\ file'.conf \in {Torn, ConfOf(mem.vtep, mem.gw)}
        /\ UNCHANGED <<reading, ovs>>
    BY <1>0, <1>7 DEF WriteFilesForOVN, FileStep, Advance, HostTypeOK
  <2>2. ovs.encap = mem.vtep
    BY <1>0, <2>1 DEF PassInv, AfterEncap
  <2>3. ConfOf(mem.vtep, mem.gw) = Promise!ConfOf(reading)
    BY <1>3, <2>1 DEF ConfOf, Promise!ConfOf
  <2> QED
    BY <1>3, <2>1, <2>2, <2>3 DEF Promise!Next, Promise!PublishConf
<1>8. CASE RecreatePod
  <2>1. reading' = None /\ file'.conf = None /\ UNCHANGED ovs
    BY <1>0, <1>8 DEF RecreatePod, ProcessEnds, HostTypeOK
  <2> QED
    BY <2>1 DEF Promise!Next, Promise!LosePod
<1>9. CASE PassStep
  <2>1. CASE GetHostName \/ ReconcileChassisID \/ ReadBrOvnAddrs \/ ReadGateway
                 \/ RunNetplanApply
    BY <1>1, <2>1
    DEF GetHostName, ReconcileChassisID, ReadBrOvnAddrs, ReadGateway,
        RunNetplanApply
  <2>2. CASE SetVtepAddr \/ AddVtepRoute \/ AddHostRoute
    BY <1>1, <2>2 DEF SetVtepAddr, AddVtepRoute, AddHostRoute, RouteStep
  <2>3. CASE AddFlannelRule \/ AddOobRule \/ AddSourceRoute
    BY <1>1, <2>3 DEF AddFlannelRule, AddOobRule, AddSourceRoute, RuleStep
  <2> QED
    BY <1>4, <1>5, <1>6, <1>7, <1>9, <2>1, <2>2, <2>3 DEF PassStep
<1>10. CASE StartProcess \/ ReadArguments \/ TickerFires \/ FinishPass \/ StartDHCPServer
               \/ ReportReady \/ MainStepFails \/ Interrupt \/ Stop
               \/ LoopReturns \/ MainReturns \/ Crash \/ DnsmasqDies
               \/ LivenessProbeFails \/ PassStepFails \/ SystemChanges
               \/ RenumberBrOvn \/ DHCPAssigns
  BY <1>1, <1>10
  DEF StartProcess, ReadArguments, TickerFires, FinishPass, StartDHCPServer, ReportReady,
      MainStepFails, Interrupt, Stop, LoopReturns, MainReturns, Crash,
      DnsmasqDies, LivenessProbeFails, PassStepFails, SystemChanges,
      RenumberBrOvn, DHCPAssigns
<1>11. CASE UNCHANGED vars
  BY <1>1, <1>11 DEF vars
<1> QED
  BY <1>8, <1>9, <1>10, <1>11 DEF Next

\* In both modes the provisioner implements PublishedReading: the endpoint and
\* the files ovnkube reads always stem from one reading, endpoint first.
THEOREM Implements == Spec => KeepsPromise
<1>1. Init => Promise!Init
  BY DEF Init, Promise!Init
<1>2. IInv /\ [Next]_vars => [Promise!Next]_(Promise!vars)
  BY StepSimulation
<1> QED
  BY <1>1, <1>2, Inductive, PTL DEF Spec, KeepsPromise, Promise!Spec

-----------------------------------------------------------------------------
\* What the rest of the pod sees while the process is where main says.
LEMMA SeenLemma ==
  ASSUME IInv
  PROVE  /\ Seen = "down" <=> main = "down"
         /\ Seen = "reading" <=> main = "read"
         /\ Seen = "ready" <=> ready
         /\ main \notin {"down", "read"} => Seen \in {"configuring", "ready"}
BY DEF IInv, TypeOK, ProcTypeOK, ControlInv, Seen

\* A process that ends is seen to end, with the file as it is.
LEMMA EndsLemma ==
  ASSUME IInv, main # "down", ProcessEnds, file'.conf = file.conf
  PROVE  Outline!End
<1>1. Seen' = "down"
  BY DEF ProcessEnds, Seen
<1> QED
  BY <1>1, SeenLemma DEF Outline!End

\* A step of the provisioner is a step of ProvisionerOutline, or none.
LEMMA OutlineSimulation == IInv /\ [Next]_vars => [Outline!Next]_(Outline!vars)
<1> SUFFICES ASSUME IInv, [Next]_vars PROVE [Outline!Next]_(Outline!vars)
  OBVIOUS
<1> USE DEF hostVars, procVars, Outline!vars, Outline!Next
<1>0. HostTypeOK /\ ControlInv /\ StartedInv /\ PassInv /\ ready \in BOOLEAN
  BY DEF IInv, TypeOK, ProcTypeOK
<1>1. ASSUME UNCHANGED <<main, ready>>, file'.conf = file.conf
      PROVE  [Outline!Next]_(Outline!vars)
  BY <1>1 DEF Seen
<1>2. CASE StartProcess
  <2>1. Seen' = "reading" /\ Seen = "down" /\ UNCHANGED file
    BY <1>0, <1>2 DEF StartProcess, ControlInv, Seen
  <2> QED
    BY <2>1 DEF Outline!Start
<1>3. CASE ReadArguments
  <2>1. Seen' = "configuring" /\ Seen = "reading" /\ UNCHANGED file
    BY <1>0, <1>3 DEF ReadArguments, ControlInv, Seen
  <2> QED
    BY <2>1 DEF Outline!Accept
<1>4. CASE FinishPass \/ StartDHCPServer \/ Interrupt \/ Stop
  <2>1. UNCHANGED <<ready, file>> /\ {main, main'} \cap {"down", "read"} = {}
    BY <1>0, <1>4 DEF FinishPass, StartDHCPServer, Interrupt, Stop, ControlInv
  <2> QED
    BY <2>1 DEF Seen
<1>5. CASE ReportReady
  <2>1. Seen' = "ready" /\ Seen = "configuring" /\ file.conf # None
        /\ UNCHANGED file
    BY <1>0, <1>5 DEF ReportReady, ControlInv, StartedInv, Seen
  <2> QED
    BY <2>1 DEF Outline!ReportReady
<1>6. CASE MainStepFails \/ MainReturns \/ Crash \/ LivenessProbeFails
  BY <1>6, EndsLemma
  DEF MainStepFails, MainReturns, Crash, LivenessProbeFails
<1>7. ASSUME Abort, file'.conf = file.conf
      PROVE  [Outline!Next]_(Outline!vars)
  BY <1>1, <1>7, EndsLemma DEF Abort
<1>8. CASE PassStepFails
  BY <1>7, <1>8 DEF PassStepFails
<1>9. CASE RecreatePod
  <2>1. Seen' = "down" /\ file'.conf = None
    BY <1>0, <1>9 DEF RecreatePod, ProcessEnds, Seen, HostTypeOK
  <2> QED
    BY <2>1 DEF Outline!LosePod
<1>10. CASE WriteFilesForOVN
  <2>1. /\ pass \in {"openConf", "writeConf"} /\ UNCHANGED <<main, ready>>
        /\ file'.conf \in {Torn, ConfOf(mem.vtep, mem.gw)}
    BY <1>0, <1>10 DEF WriteFilesForOVN, FileStep, Advance, HostTypeOK
  <2>2. mem.vtep \in Addrs /\ mem.gw \in Gateways
    BY <1>0, <2>1 DEF PassInv, AfterReading, AfterHostRoute, AfterEncap
  <2>3. file'.conf # None
    BY <2>1, <2>2, NoneAssumption, NetAssumption DEF ConfOf
  <2>4. Seen' = Seen /\ Seen \in {"configuring", "ready"}
    BY <1>0, <2>1, SeenLemma DEF ControlInv, Seen
  <2> QED
    BY <2>3, <2>4 DEF Outline!WriteConf
<1>11. CASE PassStep
  <2> USE DEF Advance, Reject
  <2>1. CASE GetHostName \/ ReconcileChassisID \/ ReadBrOvnAddrs \/ ReadGateway
                 \/ RunNetplanApply
    BY <1>1, <1>7, <2>1
    DEF GetHostName, ReconcileChassisID, ReadBrOvnAddrs, ReadGateway,
        RunNetplanApply
  <2>2. CASE SetKubernetesHostNodeName \/ SetHostName \/ SetOVNEncapIP
    BY <1>1, <2>2 DEF SetKubernetesHostNodeName, SetHostName, SetOVNEncapIP
  <2>3. CASE WriteHostNodeNameFile \/ WriteBootstrapKubeconfig
    BY <1>0, <1>1, <2>3
    DEF WriteHostNodeNameFile, WriteBootstrapKubeconfig, FileStep, HostTypeOK
  <2>4. CASE SetVtepAddr \/ AddVtepRoute \/ AddHostRoute
    BY <1>1, <1>7, <2>4 DEF SetVtepAddr, AddVtepRoute, AddHostRoute, RouteStep
  <2>5. CASE AddFlannelRule \/ AddOobRule \/ AddSourceRoute
    BY <1>1, <1>7, <2>5 DEF AddFlannelRule, AddOobRule, AddSourceRoute, RuleStep
  <2> QED
    BY <1>10, <1>11, <2>1, <2>2, <2>3, <2>4, <2>5 DEF PassStep
<1>12. CASE TickerFires \/ LoopReturns \/ DnsmasqDies \/ SystemChanges
               \/ RenumberBrOvn \/ DHCPAssigns \/ UNCHANGED vars
  BY <1>1, <1>12
  DEF TickerFires, LoopReturns, DnsmasqDies, SystemChanges, RenumberBrOvn,
      DHCPAssigns, vars
<1> QED
  BY <1>2, <1>3, <1>4, <1>5, <1>6, <1>8, <1>9, <1>11, <1>12 DEF Next

\* In both modes the provisioner implements the outline that DPUPod is built from:
\* ready only behind a pass that has written ovn_k8s.conf in this pod.
THEOREM ImplementsOutline == Spec => KeepsOutline
<1>1. Init => Outline!Init
  BY DEF Init, Outline!Init, Seen
<1>2. IInv /\ [Next]_vars => [Outline!Next]_(Outline!vars)
  BY OutlineSimulation
<1> QED
  BY <1>1, <1>2, Inductive, PTL DEF Spec, KeepsOutline, Outline!Spec

=============================================================================
