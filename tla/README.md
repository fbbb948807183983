# A verification project for ovn-kubernetes-dpf

This directory models the programs of this repository in TLA+, model-checks
them with TLC on small instances and proves the properties that matter most
with TLAPS for every value of the constants. `PROJECT.json` relates every
definition to the lines it models.

## The system

The repository extends OVN Kubernetes to NVIDIA DPUs. A host with a DPU has its
pods' network on the DPU: the pods get virtual functions (VFs), and a pod on
the DPU runs OVN. Three programs of its own (`src/dpf-utils`) tie this together;
ovn-kubernetes itself is a submodule and is external here.

| component | state it keeps | operations | talks to |
|---|---|---|---|
| CNI provisioner (`cmd/dpucniprovisioner`, `internal/cniprovisioner/dpu`) | `vtepIPNet`, `gateway`, `dhcpCmd` in memory; addresses, routes and rules in the kernel; external ids in OVS; `ovn_k8s.conf`, `host-node-name`, the bootstrap kubeconfig and `.dpucniprovisioner.done` in files; the chassis annotation of the host's Node | `RunOnce` at the start, `EnsureConfiguration` every 30 s, both by `configure`; `startDHCPServer`, `Stop`, `ReportReady` | kernel, `ovs-vsctl`, `netplan`, `dnsmasq`, two Kubernetes API servers, kubelet's probes, the other containers through files |
| IP allocator (`cmd/ipallocator`) | allocations of NVIPAM, `/tmp/ips` | allocate every request and report ready; deallocate in `preStop` | NVIPAM, the provisioner through `/tmp/ips` |
| resource injector (`cmd/ovnkubernetesresourceinjector`, `webhooks`) | none; a cache of Nodes | `Default` on every pod that is created | API server, scheduler |
| OVS client (`internal/utils/ovsclient`) | none | one `ovs-vsctl` transaction per method, parsers of what it prints | OVS |
| readiness (`internal/readyz`) | `/var/run/readyz` | `ReportReady` | kubelet |
| charts (`src/helm`) | | probes, volumes, container order, restart policy | |

What is hard in each:

* **Provisioner.** A pass makes some twenty external calls, each of which may
  fail, and the process may be killed between any two. What it reads (labels,
  addresses, gateways, other interfaces) changes while it runs. What it writes
  survives it in places of different lifetimes: the container (ready file,
  dnsmasq), the pod (emptyDir: `ovn_k8s.conf`, kubeconfig), the DPU (hostPath:
  `host-node-name`, netplan; OVS; the kernel). Files are truncated before they
  are written and others read them. The Node of the host is shared with
  ovnkube-node. In external mode the first start always fails, because a lease
  takes longer than a pass, so restarts are the normal way to succeed.
  *Correct* means: a pass that succeeds leaves everything it publishes equal to
  what it read, in one reading, whatever was left before; ready means published;
  good surroundings are eventually published for good; dnsmasq serves the
  network that is published; the live chassis id is never removed; netplan is
  not applied more often than the cooldown allows and never stops being applied.
* **IP allocator.** Two allocations of which one may fail; a crash without
  `preStop`. *Correct*: what is in `/tmp/ips` is what is allocated, and what was
  allocated is returned.
* **Resource injector.** It decides from a cache at creation, the scheduler
  later from the truth; selectors and affinities combine by and, or and
  exclusions. *Correct*: no pod of the cluster network runs on a DPU host without
  a VF unless the Node changed meanwhile; a pod is neither made unschedulable
  nor allowed where its own selectors rule it out.
* **Pod.** Allocator, provisioner and OVN containers start one after the other
  the first time and restart each on its own from then on, while a deletion runs
  `preStop` beside all of them. *Correct*: whoever runs finds the files it needs,
  in the pod it runs in, and nobody waits for ever.
* **main of the provisioner.** A dozen settings of which each may be missing,
  blank, no number, zero, negative or too large, in an environment that only a
  new pod changes. *Correct*: what is published is what the environment says, or
  nothing; nothing that is in order is refused; the MTU for the host is in range.
* **OVS client.** A run of `ovs-vsctl` that fails after its commit; parsers of
  empty maps, of quoted values and of values with separators in them.

## The modules

| module | models | notes |
|---|---|---|
| `Provisioner` | the process and `configure` call by call, its surroundings | both modes, with or without a host cluster |
| `PublishedReading` | abstract: tunnel endpoint and `ovn_k8s.conf` come from one reading, endpoint first | three variables, four actions |
| `ProvisionerOutline` | abstract: what the other containers of the pod see of the provisioner | two variables, six actions |
| `ProvisionerProps` | the properties and the inductive invariant of `Provisioner`, and its mappings to `PublishedReading` and `ProvisionerOutline` | |
| `MCProvisioner` | values for TLC | |
| `ProvisionerProofs` | theorems, the refinement among them | |
| `HostChassis` | abstract: what is promised about the chassis annotation | two variables, three actions |
| `ChassisReconcile` | `reconcileHostNodeChassisID` against API server and ovnkube-node | implements `HostChassis` |
| `ChassisReconcileProofs` | theorems, the refinement among them | |
| `NetplanCooldown` | `runNetplanApply`, its file and a clock that may be set | |
| `NetplanCooldownProofs` | theorems | |
| `StartupConfig` | `main` of the provisioner: every check that may end it, what it sets, publishes and starts | implements `ProvisionerOutline` |
| `MCStartupConfig` | environments for TLC | |
| `StartupConfigProofs` | theorems | |
| `IPAllocator` | the IP allocator, its `preStop` hook and NVIPAM, over the pods of a DPU | |
| `IPAllocatorProofs` | theorems | |
| `DPUPod` | the containers of a pod, composed from the actions of `IPAllocator` and `ProvisionerOutline` | extends `IPAllocator` |
| `DPUPodProofs` | theorems | extends `IPAllocatorProofs` |
| `NetworkInjector` | the webhook, its cache, the scheduler | both modes |
| `MCNetworkInjector` | values for TLC | |
| `NetworkInjectorProofs` | theorems | |
| `OVSText` | what `ovs-vsctl` prints and how the client reads it | texts are sequences of symbols |
| `OVSClient` | calls of the client as transactions on the database, beside another client | |
| `MCOVSClient` | values for TLC | |
| `OVSClientProofs` | theorems, and lemmas about trimming texts | |

Operators whose name ends in an underscore and a word (`SetOVNEncapIP_IfUnset`)
are mutated forms, each the code with a plausible bug; they are not part of any
specification. `PROJECT.json` says which property each of them breaks.

### Provisioner

`pass` is the program counter of `configure`: its value names the next external
call, and each call is one action. `main` and `loop` are the two goroutines;
the `pass` of `RunOnce` and that of `EnsureConfiguration` share a counter because
the second starts when the first has ended. `mem` is what the struct and the
pass keep in memory. The variables in `hostVars` are everything the program
writes outside its process; `env` is what it only reads.

* Every call may fail (`PassStepFails`): fatal in `RunOnce`, logged in the loop
  (`Abort`). Failing is also what a lease that is missing or a blank label does.
* `os.WriteFile` is two actions, `open` (the file is `Torn`) and `write`.
* `ProcessEnds` covers `klog.Fatal`, the return of `main` and kills; kubelet
  restarts the container (`StartProcess`), and `main` reads its arguments
  (`ReadArguments`) before the first pass. SIGTERM is not handled by the program
  and is a `Crash`.
* `RecreatePod` empties the emptyDir volumes and brings a new allocation;
  `RenumberBrOvn` is the external DHCP server changing the address of br-ovn,
  upon which the kernel drops its routes.
* The "already exists" checks before an address, a route or a rule is added are
  the union with the set there is. With `ExclusiveRoutes` the kernel refuses a
  route beside one with the same destination and metric through another gateway,
  as `ip route add` does (the helper that adds them is outside the repository).
* Two calls have modules of their own. `ReconcileChassisID` is `ChassisReconcile`:
  the annotation is read and written by nothing else of a pass, so the two share no
  variable but the fate of the process. `RunNetplanApply` is `NetplanCooldown`: all
  a pass sees of it is an error, in any case, and all that br-ovn sees is that netplan
  was applied (`applied`), after which a DHCP server may assign an address. The call
  may end right after its command has succeeded, which is a step of its own; it may
  skip the command only where an earlier one has succeeded, which is the theorem
  `Skips` about `NetplanCooldown`. (There the command is also skipped by a clock
  within the cooldown of 1970; that passes with time and is left to that module.)

### ChassisReconcile

A pass reads the system-id, gets the Node and perhaps sends a patch with the
`resourceVersion` it read. The patch of a client that timed out or died stays in
`orphans` and may be applied at any later time, or never. ovnkube-node annotates
a Node without an id, possibly late (`registering`). `Reprovision` gives the DPU
a fresh id and ends the process. Ids are numbered, 0 being from before.

### NetplanCooldown

Time is relative: `age` is how old the time in the file is, `since` and
`recorded` how long ago netplan last succeeded, and last succeeded with the time
in the file. All stop growing at the cooldown, which keeps the model finite
without a bound on time. `phase` is the fraction of a second that the file does
not show. Passes are not spaced in the model, which allows the restarts that are
much faster than the ticker. The clock may be set back and forward, by `MaxBack`
and `MaxForward` ticks in total: `age` and `stamp` are what the clock makes of a
time, `since` and `recorded` are real. A file that is missing or blank is read as
the time 0, so `epoch`, what the clock says since 1970, is compared with the
cooldown in its place: a DPU whose clock starts in 1970 skips netplan for two minutes
although it was never applied.

### StartupConfig

`at` names the next check of `main`. A text of the environment is a kind (unset,
blank, no number, a number with or without spaces around it) and a value;
settings of which only the validity matters are the set `bad`. `int` wraps around
at `MaxInt`, which stands for the largest 64-bit one. A pass is one step here.
What ends `main` besides (the tools of OVS, the service account, the clientset) is
a member of `bad` too.

Two conditions on the values stand beside the code. `Acceptable` is what `main` takes,
put as one condition for each setting and not as an order of checks:
`PublishedIsConfigured` says that nothing else is published, `RefusesOnlyBad` that
nothing of the kind is refused, and after `ovn_k8s.conf` is published only an MTU that
is too large. `Described` is what the chart, the messages and the comments say. The two
differ twice: a renew interval of 0, which the chart describes, is refused
(`startup_zero_lease`), and a negative MTU, which the message excludes, is taken
(`startup_mtu.cfg`). `ServesDescribed` says that nothing described is refused but the
former, and `ReadyMeansConfigured` that no MTU outside of the range gets to dnsmasq but
the latter and one that wraps around.

### IPAllocator

`alloc` and `hook` are the program counters of the container and of the
deallocator that `preStop` runs beside it. NVIPAM is external: `holder` is the
pod that holds an address, and a request of another pod is refused. The results
in the volumes of the pod (`ips`) let a restarted container get them again. A
call that fails may have had its effect (`AllocationCutShort`).
`AddTwice` is whether NVIPAM gives an address again to the pod that holds it when
the result was lost; without it a lost answer leaves the pod refused until it is
deleted, so the runs assume it. `preStop` does not run in a container that is
down, nor when the process ends by itself.

### DPUPod

`SystemNext` takes the actions of `IPAllocator` and orders them with those of the
provisioner and of the OVN containers: a container starts when the startup probe
of the one before has succeeded once in the pod, and is killed after those behind
it. The actions of the provisioner are those of `ProvisionerOutline`, with two
variables (`prov`, `conf`). `Provisioner`, which has the passes call by call, and
`StartupConfig`, which has the checks of `main` one by one, both implement it, each
under its own mapping `Seen`. So `DPUPod` relies on nothing of the
provisioner that the detailed modules do not have. In external mode there is no
allocator, and `Provisioner` is all there is of the pod. Faults of the allocator
and of the other containers have a bound each.

### OVSClient

A call is one run of `ovs-vsctl`: one transaction that is refused, committed, or
committed with an error for an answer. Two calls that the code makes after each
other are two actions, and `OtherClient` writes in between. `asked` remembers what
`AddPortWithMetadata` was given. The system-id is any text without a quote, since
`ovs-vsctl` would escape one; the id `[]` cannot be told from none. The parsers work on sequences of symbols, in
which a word is one symbol and the separators are symbols of their own. Names of ports
that `ovs-vsctl` prints in quotes (`QuotedNames`) keep them in the answer of
`ListInterfaces`. `BridgeExists` answers an error for a bridge that is not there: it
looks for an error type that the commands of `k8s.io/utils/exec` do not return (nothing
in the repository calls it). `ReadsWhatIsWritten` says that ids come back as written, or
that the call fails: a value with a `=` is an error, one with a comma and a blank ends
the process. One with both comes back as other ids; the property leaves that out, and
`ovs_external_ids.cfg` shows it.

### NetworkInjector

`cache` follows `nodes` Node by Node, at any distance. Each admission is by a
replica with one of the `Settings` of `PrioritizeOffloading`, so that both answer
while new values of the chart roll out. `AdmitPod` is `Default` on
one snapshot of the cache (the code lists Nodes once); `BindPod` is the
scheduler, at any later time. A term of a node affinity is the set of labels it
needs and its expressions on the DPU host label; a term without either matches
nothing, as in Kubernetes. A pod whose labels or namespace opt out of the webhook
(`optOut`) is admitted as it is, and `NoVFOnlyWithoutDPU` says nothing of it. A pod may
name the VF resource with a quantity of 0 (`named`); the webhook takes it for one that
asks for VFs, and `KeepsSchedulable` leaves it out. Requests and limits for VFs are one number. An error
of `Default` rejects the pod and changes nothing.

## Runs

| run | question | bounds |
|---|---|---|
| `provisioner_external` | safety, causes of a refused pass and eventual publication with an external DHCP server | 2 host names, 2 addresses in 2 networks, 2 gateways, 1 change, 1 fault |
| `provisioner_internal` | the inductive invariant, with allocations, what stays published, a DHCP server that runs for good, and the refinement of `ProvisionerOutline` | the same but 2 changes; 2 allocations, no host cluster, no exclusive routes |
| `provisioner_stale_route` | is the configuration ensured after the gateway has changed? No | 1 change, no fault |
| `chassis` | refinement of `HostChassis`, and eventual registration | 2 reprovisionings, 1 other update, 2 faults |
| `netplan` | spacing and persistence of `netplan apply`, end of the cooldown | 2 ticks a second, a cooldown of 2 seconds, clock set back by 3 and forward by 2 ticks, 2 faults |
| `injector` | where pods may end up, with either setting and with replicas of both | 2 Nodes, 1 further label, up to 2 terms, 1 change |
| `injector_empty_term` | the same with an empty term: the affinity is widened | 3 Nodes, no change |
| `startup` | what is refused, accepted, published and started, and that accepted values become ready | 2 pods, every setting tried by itself, the lease with its duration, 1 fault |
| `startup_zero_lease` | does a renew interval of 0 disable the lease? No | one environment |
| `pod` | the files the containers pass, what a ready pod holds and an orderly one returns, coming up and going away | 2 requests, 3 pods, 3 faults of the allocator and 2 of the others |
| `allocator_leak` | does a deleted pod hold nothing? No | 2 pods, no fault |
| `ovs` | ports are added whole and never lack a bridge, ids are read back | 2 bridges, 1 port, 5 maps of ids, 1 fault |

The bounds are enough for the cases the properties are about: two values of
everything that may be stale, so that an old one and a new one differ; a change
that falls before or during a pass, and in `provisioner_internal` one of each; a
fault that leaves a half-done pass behind, after which everything may succeed. An
external DHCP server, which comes with an address of its own whenever br-ovn has
lost the one before, adds changes that no bound limits. A second fault in the
provisioner leads back to states that a change and a fault reach already. An
interface without an address stands for one with several, which a pass refuses
alike. In `startup` one fault is a pass that leaves its file behind, a container
that dies, or a result that is returned; the second pod is what its volume is
compared with. In the injector every initial
pair of Nodes is tried with every pod, so one change suffices to make the cache
stale; three Nodes are needed to see a widened affinity, a DPU host and another
Node that match and one that does not. Two requests are the number in the manifest,
and the second pod of a DPU is the first that can be refused what the one before
has kept; a third one follows a pod that was itself refused. Three faults are one
in the allocation, one in the return and one that kills; two of the others let the
provisioner and the OVN containers both restart in one pod. In `ovs` one port can be
on the wrong bridge, and each map of ids has one feature of the format. The proofs
have no bounds. `allocator_leak` and `pod` do not check for deadlock:
a ready pod that nobody deletes only waits, and the number of pods is bounded.

`UndisturbedPassPublishes` is the central property: it compares what a pass has
left in the kernel, in OVS and in files with what its surroundings are, for a
pass in which nothing changed, after any history. `PassPublishesOneReading` and
`PublishesWhatOnePassRead` are about passes in which something did change. The run
`provisioner_internal` checks the inductive invariant, from which these follow in
both modes (`ProvisionerProofs`), and what only this mode has.

`EventuallyPublished` says that passes converge. Two action properties say what that
rests on besides fairness: `RefusedForCause`, that an undisturbed pass is refused
only for what its surroundings lack or a stale route blocks, so that nothing earlier
passes have left is in its way; and `StaysPublished`, that what such a pass has
published is taken back by no later pass, failure, crash or restart while its
surroundings stay. The one exception is in the property: a pass that is cut short
between truncating a file and writing it leaves it empty until the next one.

### Disagreements the runs show

* `injector_empty_term`: an empty affinity term matches no Node until the
  exclusion is added to it; then it matches every Node without a DPU.
* `provisioner_stale_route`: the route through an earlier gateway stays, the kernel
  refuses the one through the new gateway, and every later pass fails there.
* `allocator_leak`: the allocator does not notice the deallocator that `preStop` runs
  beside it. A pod that is deleted while the allocator is still allocating keeps what
  it gets behind the deallocator, and a pod that is deleted while the container is
  down runs no `preStop`. `OrderlyPodReturnsAll` is what does hold.
* `startup_zero_lease`: a renew interval of 0, which the chart documents as the way
  to disable the health check, ends the container; only an empty one does that.

Four more configurations stand beside the runs, each of which ends with a
counterexample; what does hold in their place is a property of a run.

* `provisioner_ready_dhcp.cfg` (`ReadyMeansDHCPUp`): the readiness probe of the
  provisioner is said to ensure that the DHCP server is up; it reads a file that
  stays when dnsmasq dies. The liveness probe makes up for it later
  (`EventuallyServes`).
* `netplan_cooldown.cfg` (`CooldownHonoured`): a success whose time does not get
  into the file, because the write fails or the process ends, starts no cooldown
  (`AppliesSpaced`).
* `startup_mtu.cfg` (`DhcpMtuInRange`): a negative `OVN_MTU` passes both checks,
  although the message of the second says that the MTU must be greater than 60.
  Every other `OVN_MTU` is in range when the container is ready
  (`ReadyMeansConfigured`).
* `ovs_external_ids.cfg` (`ReturnsExternalIDs`): a quoted value with a comma and a
  blank is split in two; the reader indexes out of range or, when the value holds a
  `=` too, returns ids that the port does not have (`ReadsWhatIsWritten` for all
  others).

## Fairness

* Steps of a pass, of `main` and of the ticker are weakly fair: calls return
  (with a result or an error) and the ticker ticks for ever.
* kubelet restarts and probes, and a DHCP server answers after netplan was
  applied: weakly fair actions of the surroundings.
* `LoopReturns` is strongly fair: the `select` of `EnsureConfiguration` chooses at
  random between a tick and a context that is done, and cannot always choose the
  tick.
* ovnkube-node registers a Node without an id; time passes.
* In `StartupConfig` the program goes on and kubelet restarts what has ended
  (`WF_vars(Main)`, one place at a time, so one condition suffices).
* In `DPUPod` kubelet starts, probes, runs hooks and kills,
  NVIPAM answers and the programs go on: one weakly fair action each. Deletions,
  failing probes and lost nodes have none.
* Faults, changes, crashes, late patches and leases that come and go have no
  fairness. Faults and changes are bounded in the runs; the liveness properties
  are of the form "if the surroundings stay good from some time on".

## Proofs

Every theorem is proved from the specification and the named assumptions on the
constants: which sets they are in, that `None` and `Torn` are not values, that there
are finitely many addresses, and no more. None of them bounds the changes or the
faults.

* **Provisioner.** `IInv` has one part for the control (which goroutine may be
  where), one for what each call behind the pass has left (`PassInv`), one for
  what only an undisturbed pass knows (`UndisturbedReadings`,
  `UndisturbedKernel`), and one for what `RunOnce` has left for good
  (`StartedInv`). The properties speak of the end of a pass only, hence the
  strengthening by what holds at each call. Each part has a lemma of its own,
  with one step per action. `Inductive`, `TypeCorrect`, `PassesPublish`, `PassesAgree`,
  `ReadyCorrect`, `DhcpCorrect` and the action property `PublishesReadings` follow.
  So does the safety core of `EventuallyPublished`: a pass is refused only for a
  cause (`RefusesForCause`: each place a call may refuse at contradicts what the
  pass knows of its surroundings), one that succeeds leaves everything settled
  (`PassesSettle`), and that stays (`PublishedStays`: by `PassRepeats` each call of
  an undisturbed pass writes what is there already, and by `SettledStays` nothing
  else touches it). For this `UndisturbedReadings` has to know that br-ovn still has
  not exactly one address when netplan is run. `Implements`: with `encap` and `conf` mapped to what OVS and the file hold,
  every call is a step of `PublishedReading` or stutters. `ImplementsOutline` does
  the same for `ProvisionerOutline`: the part of `StartedInv` that says
  `ovn_k8s.conf` is there behind `RunOnce` is what makes `ReportReady` a step of it.
* **ChassisReconcile.** The invariant says that any patch on its way that still
  has the Node's version fits a stale id: each update of the Node outdates all
  patches, and no id becomes live again, because ids are fresh. With it every
  step is a step of `HostChassis` or stutters (`Implements`).
* **NetplanCooldown.** The invariant relates the age of the time in the file to
  that of the success (`age < recorded + TicksPerSecond`) and says that the last
  recorded success stays old until a new one is in the file, through every
  failure between the steps. `Spaced` follows. `Ends` says that a clock that was
  set back prolongs the cooldown by that much and by no more, and `Skips` is what
  `Provisioner` takes from here: the command is skipped only after a success, unless
  the clock is within the cooldown of 1970.
* **IPAllocator.** `IInv`: each request behind the allocator is held and has its
  result, unless the deallocator is at work; each one behind the deallocator of a
  pod that was serving is returned. Neither property is inductive without what
  holds in the middle of the two loops.
* **DPUPod.** The pod refines both of its parts: each of its steps is a step of
  `IPAllocator` or leaves its variables alone (`ImplementsAllocator`), and a step
  of `ProvisionerOutline` or stutters (`ImplementsOutline`). So what is proved of
  the allocator alone holds in the pod (`PodReadyHolds`, `PodOrderlyReturns`), its
  invariant too, which `SystemIInv` contains. `OvnHasConf` needs that a
  startup probe that has succeeded in this pod has seen the file in this pod's
  volume.
* **StartupConfig.** `IInv` says for each place what `main` has found in order so
  far (`Checked`), what it has set (`Configured`) and what it has left
  (`Started`); `Publishes` and `ReadyConfigured` follow for every set
  of environments and every width of `int` that can hold an MTU, and `Renewable`: a
  lease that is published can be renewed before it ends (`LeaseCanBeRenewed`, a
  consequence of `PublishedIsConfigured` that no run repeats). `RefusesForCause`
  is the converse of `Publishes`: for each place a check may fail at, what has been
  found in order before and `Acceptable` contradict the failure; that of the MTU
  for dnsmasq needs that a small MTU does not wrap around. `Acceptable` is what `main`
  takes, so the two theorems are about the order of the checks and the parsing behind
  them; `ServesTheDescribed` compares `main` with the documents (`ServesDescribed`,
  which follows from `RefusesOnlyBad` and which no run repeats). `ReadyConfigured` needs
  that dnsmasq keeps the MTU of the environment it was started in. `ImplementsOutline`
  relates `main` to `ProvisionerOutline`.
* **OVSClient.** `IInv` is `AddedWhole` with the types and with the bridge of each
  port, which the deletion of a bridge could leave behind. `TransactionEffect` says
  that a run commits all or nothing, and each call is then one case. For
  `SystemIDReadsBack`, `Trimmed` says what `TrimAll` keeps once the first and the
  last symbol that stay are known; `LineTrimmed` and `Unquoted` apply it to the
  line end and to the quotes, for texts of any length.
* **NetworkInjector.** The pod is a function of the pod as created and of the
  snapshot; `ExclusionExact` says what the exclusion does to an affinity, for all
  terms and Nodes, and the three properties follow by cases on the decision.
  `DecisionStands`: the webhook leaves a pod it has admitted without a VF as it is
  when it sees it again, for every pod, cache and setting. (One that already asks for
  VFs gets one more each time; the code takes them for the user's.)

Model-checked only: liveness (`EventuallyPublished`, `EventuallyServes`,
`EventuallyRegistered`, `AppliedAgain`, `EventuallyReady`, `EventuallyUp`,
`EventuallyGone`), which is out of the prover's reach, and `ReadsWhatIsWritten`: it
follows `Split` and `Joined` through texts with any number of pairs, which are
folds, and a fact about a fold takes an induction that the prover cannot do.

## Not modelled

Left out:

* setters of the OVS client that write one column which nothing reads back
  (datapath type, MAC, uplink, controller, patch peer, DOCA);
* the set-up of the injector's manager, which is all library, and the mock, which
  is generated;
* NVIPAM, libcni and `networkhelper`, which are not in the repository: their models
  say what the code relies on, and are marked external in `PROJECT.json`;
* formats of files, kubeconfigs and dnsmasq arguments beyond the values that vary;
* the list of PMD queues that the OVS client reads from `ovs-appctl`;
* several DPUs that name one host: `ChassisReconcile` has one DPU and its host;
* the exact time between passes and probes.
