-------------------------- MODULE NetworkInjector --------------------------
(***************************************************************************)
(* The OVN Kubernetes resource injector (src/dpf-utils/internal/           *)
(* ovnkubernetesresourceinjector/webhooks): a mutating webhook for pods.   *)
(* It asks for a VF for a pod that is to run on a host with a DPU, and in  *)
(* one of its modes it keeps other pods away from such hosts.              *)
(*                                                                         *)
(* The webhook decides from a cache of the Nodes; the scheduler binds the  *)
(* pod later, to a Node as it is by then. One pod at a time: the admission *)
(* of a pod reads nothing of other pods.                                   *)
(***************************************************************************)
EXTENDS Naturals, FiniteSets

CONSTANTS
    Nodes,                 \* names of Nodes
    Labels,                \* labels of Nodes other than the DPU host label
    PodTemplates,          \* the pods that users create
    Settings,              \* of PrioritizeOffloading, in replicas of the webhook
    None,                  \* a Node that does not exist, no pod
    MaxChanges             \* bound on the changes of Nodes

\* The DPU host label of a Node: missing, with the value of the setting
\* DPUHostLabelValue, or with another one.
NodeLabels == [dpu : {"missing", "host", "other"}, has : SUBSET Labels]

\* A NodeSelectorTerm: the labels it requires, its expressions on the DPU label.
Terms == [need : SUBSET Labels, dpu : SUBSET {"In", "NotIn", "DoesNotExist"}]

\* Whether the pod or its namespace has the label skip-injection, nodeSelector,
\* whether there is a required node affinity and its terms, whether the first
\* container names the VF resource and how many it asks for, which may be 0.
Pods ==
    {p \in [hostNetwork : BOOLEAN, optOut : BOOLEAN, selector : SUBSET Labels,
            required : BOOLEAN, terms : SUBSET Terms, named : BOOLEAN, vfs : Nat] :
        (~p.required => p.terms = {}) /\ (~p.named => p.vfs = 0)}

ASSUME PodsAssumption == PodTemplates \subseteq Pods
ASSUME NoneAssumption ==
    None \notin NodeLabels /\ None \notin Pods /\ None \notin Nodes
ASSUME SettingAssumption == Settings \subseteq BOOLEAN
ASSUME BoundAssumption == MaxChanges \in Nat

VARIABLES
    nodes,   \* the Nodes
    cache,   \* the Nodes in the cache of the webhook's client
    asked,   \* history: the pod as it was created, or None
    pod,     \* the pod that was admitted, or None
    seen,    \* history: the cache when the pod was admitted
    setting, \* history: the setting of the replica that admitted it
    host,    \* the Node the pod is bound to, or None
    changes

podVars == <<asked, pod, seen, setting, host>>
vars == <<nodes, cache, podVars, changes>>

Views == [Nodes -> NodeLabels \cup {None}]

TypeOK ==
    /\ nodes \in Views /\ cache \in Views /\ seen \in Views
    /\ asked \in PodTemplates \cup {None} /\ pod \in Pods \cup {None}
    /\ setting \in Settings
    /\ host \in Nodes \cup {None}
    /\ changes \in 0..MaxChanges

Init ==
    /\ nodes \in Views /\ cache = nodes /\ seen = nodes
    /\ setting \in Settings
    /\ asked = None /\ pod = None /\ host = None
    /\ changes = 0

-----------------------------------------------------------------------------
(***************************************************************************)
(* Node affinity, as the scheduler and the webhook's library see it.       *)
(***************************************************************************)
ExpressionHolds(e, node) ==
    \/ e = "In" /\ node.dpu = "host"
    \/ e = "NotIn" /\ node.dpu # "host"
    \/ e = "DoesNotExist" /\ node.dpu = "missing"

\* A term without any requirement matches no Node.
EmptyTerm == [need |-> {}, dpu |-> {}]

TermMatches(t, node) ==
    /\ t # EmptyTerm
    /\ t.need \subseteq node.has
    /\ \A e \in t.dpu : ExpressionHolds(e, node)

Matches(p, node) ==
    /\ p.selector \subseteq node.has
    /\ p.required => \E t \in p.terms : TermMatches(t, node)

MatchingNodes(p, view) == {n \in Nodes : view[n] # None /\ Matches(p, view[n])}
WithDPU(p, view) == {n \in MatchingNodes(p, view) : view[n].dpu = "host"}
WithoutDPU(p, view) == {n \in MatchingNodes(p, view) : view[n].dpu # "host"}

-----------------------------------------------------------------------------
(***************************************************************************)
(* The webhook.                                                            *)
(***************************************************************************)

\* A mutated form for the checks: the counts are swapped.
SkipInjection_Swapped(p, view, prioritize) ==
    IF prioritize THEN WithDPU(p, view) # {} /\ WithoutDPU(p, view) = {}
                  ELSE WithoutDPU(p, view) # {}

\* A mutated form for the checks: the setting is not looked at.
SkipInjection_AnyMode(p, view, prioritize) == WithoutDPU(p, view) # {}

\* shouldSkipInjection: with no matching Node a VF is injected.
SkipInjection(p, view, prioritize) ==
    /\ WithoutDPU(p, view) # {}
    /\ prioritize => WithDPU(p, view) = {}

AddAffinity(p, view, prioritize) ==
    ~prioritize /\ WithDPU(p, view) # {} /\ WithoutDPU(p, view) # {}

ExcludeDPUTerm == [need |-> {}, dpu |-> {"NotIn"}]

\* A term that has the exclusion already is left alone.
Excluding(t) ==
    IF t.dpu \cap {"NotIn", "DoesNotExist"} # {} THEN t
    ELSE [t EXCEPT !.dpu = @ \cup {"NotIn"}]

\* A mutated form for the checks: the exclusion is one more term.
AddAffinityForNonDPUNodes_OneMoreTerm(p) ==
    [p EXCEPT !.required = TRUE, !.terms = @ \cup {ExcludeDPUTerm}]

\* A mutated form for the checks: a missing required affinity is not created.
AddAffinityForNonDPUNodes_NotRequired(p) ==
    [p EXCEPT !.terms = IF @ = {} THEN {ExcludeDPUTerm}
                        ELSE {Excluding(t) : t \in @}]

\* The exclusion is added to every term.
AddAffinityForNonDPUNodes(p) ==
    [p EXCEPT !.required = TRUE,
              !.terms = IF @ = {} THEN {ExcludeDPUTerm}
                        ELSE {Excluding(t) : t \in @}]

\* One VF more, and the annotation that attaches the pod's network to it.
InjectNetworkResources(p) == [p EXCEPT !.named = TRUE, !.vfs = @ + 1]

\* Default. A pod that already names the VF resource is not checked.
Default(p, view, prioritize) ==
    LET q == IF AddAffinity(p, view, prioritize) THEN AddAffinityForNonDPUNodes(p) ELSE p
    IN  IF p.hostNetwork THEN p
        ELSE IF p.named THEN InjectNetworkResources(p)
        ELSE IF SkipInjection(p, view, prioritize) THEN q
        ELSE InjectNetworkResources(q)

\* The API server calls the webhook for a pod unless it or its namespace opts out.
Admitted(p, view, prioritize) ==
    IF p.optOut THEN p ELSE Default(p, view, prioritize)

\* A pod is created. (When Default returns an error it is not, failurePolicy is
\* Fail, and nothing changes.) While new values of the chart roll out, replicas
\* with the old and with the new setting answer.
AdmitPod ==
    /\ pod = None
    /\ setting' \in Settings
    /\ \E p \in PodTemplates : asked' = p /\ pod' = Admitted(p, cache, setting')
    /\ seen' = cache
    /\ UNCHANGED <<nodes, cache, host, changes>>

-----------------------------------------------------------------------------
(***************************************************************************)
(* The cluster.                                                            *)
(***************************************************************************)

\* The scheduler. Only hosts with a DPU have VFs.
CanRun(p, node) ==
    node # None /\ Matches(p, node) /\ (p.vfs > 0 => node.dpu = "host")

BindPod ==
    /\ pod # None /\ host = None
    /\ \E n \in Nodes : CanRun(pod, nodes[n]) /\ host' = n
    /\ UNCHANGED <<nodes, cache, asked, pod, seen, setting, changes>>

DeletePod ==
    /\ pod # None
    /\ asked' = None /\ pod' = None /\ host' = None
    /\ UNCHANGED <<nodes, cache, seen, setting, changes>>

\* A Node joins, leaves or gets other labels.
ChangeNode ==
    /\ changes < MaxChanges /\ changes' = changes + 1
    /\ \E n \in Nodes, l \in NodeLabels \cup {None} :
           nodes' = [nodes EXCEPT ![n] = l]
    /\ UNCHANGED <<cache, podVars>>

\* The watch of the cache delivers, Node by Node.
CacheCatchesUp ==
    /\ \E n \in Nodes : cache' = [cache EXCEPT ![n] = nodes[n]]
    /\ UNCHANGED <<nodes, podVars, changes>>

Next == AdmitPod \/ BindPod \/ DeletePod \/ ChangeNode \/ CacheCatchesUp

Spec == Init /\ [][Next]_vars

-----------------------------------------------------------------------------
Binds(n) == host = None /\ host' = n

\* A pod of the cluster network that runs without a VF on a host with a DPU has
\* no network. Unless it has opted out of the injection, this happens only when
\* the Node is not what the webhook saw.
NoVFOnlyWithoutDPU ==
    [][\A n \in Nodes :
           Binds(n) /\ ~pod.hostNetwork /\ ~pod.optOut /\ pod.vfs = 0
                    /\ nodes[n].dpu = "host" =>
               nodes[n] # seen[n]]_vars

\* Neither the VF nor the affinity makes a pod unschedulable: when one of the
\* Nodes the webhook saw could run the pod, one of them still can. A container that
\* names the VF resource with the quantity 0 is taken for one that asks for VFs, and
\* is left out here: its pod gets one even if it fits Nodes without a DPU only.
KeepsSchedulable ==
    pod # None /\ (asked.named => asked.vfs > 0)
               /\ (\E n \in Nodes : CanRun(asked, seen[n])) =>
        \E n \in Nodes : CanRun(pod, seen[n])

\* The exclusion is added "to all existing terms to maintain OR semantics across
\* terms while adding AND logic within each term": a pod is never bound to a
\* Node that its own selectors rule out.
RunsWhereAsked ==
    [][\A n \in Nodes : Binds(n) => Matches(asked, nodes[n])]_vars

\* The inductive invariant.
IInv ==
    /\ TypeOK
    /\ asked = None <=> pod = None
    /\ host # None => pod # None
    /\ pod # None => pod = Admitted(asked, seen, setting)

=============================================================================
