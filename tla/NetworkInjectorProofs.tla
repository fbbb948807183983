----------------------- MODULE NetworkInjectorProofs -----------------------
(***************************************************************************)
(* What the resource injector guarantees, for any Nodes, labels and pods,  *)
(* in both modes, and however stale its cache is.                          *)
(***************************************************************************)
EXTENDS NetworkInjector, TLAPS

USE NoneAssumption, PodsAssumption, SettingAssumption, BoundAssumption

\* The exclusion keeps every Node without a DPU that a term matches, and unless
\* the term is empty it adds none.
LEMMA ExcludingLemma ==
    ASSUME NEW t \in Terms, NEW node \in NodeLabels
    PROVE  /\ Excluding(t) \in Terms
           /\ TermMatches(Excluding(t), node) => node.dpu # "host"
           /\ TermMatches(t, node) /\ node.dpu # "host" =>
                  TermMatches(Excluding(t), node)
           /\ TermMatches(Excluding(t), node) /\ t # EmptyTerm =>
                  TermMatches(t, node)
<1>1. CASE t.dpu \cap {"NotIn", "DoesNotExist"} # {}
    <2>1. Excluding(t) = t
        BY <1>1 DEF Excluding
    <2>2. TermMatches(t, node) => node.dpu # "host"
        <3> SUFFICES ASSUME TermMatches(t, node) PROVE node.dpu # "host"
            OBVIOUS
        <3>1. PICK e \in t.dpu : e \in {"NotIn", "DoesNotExist"}
            BY <1>1
        <3>2. ExpressionHolds(e, node)
            BY <3>1 DEF TermMatches
        <3>3. QED
            BY <3>1, <3>2 DEF ExpressionHolds
    <2>3. QED
        BY <2>1, <2>2
<1>2. CASE t.dpu \cap {"NotIn", "DoesNotExist"} = {}
    <2> DEFINE u == [need |-> t.need, dpu |-> t.dpu \cup {"NotIn"}]
    <2>1. Excluding(t) = u
        BY <1>2 DEF Excluding, Terms
    <2>2. u \in Terms
        BY DEF Terms
    <2>3. u # EmptyTerm
        BY DEF EmptyTerm
    <2>4. TermMatches(u, node) <=>
              /\ t.need \subseteq node.has
              /\ \A e \in t.dpu : ExpressionHolds(e, node)
              /\ node.dpu # "host"
        BY <2>3 DEF TermMatches, ExpressionHolds
    <2>5. QED
        BY <2>1, <2>2, <2>4 DEF TermMatches
<1>3. QED
    BY <1>1, <1>2

\* addAffinityForNonDPUNodes leaves a pod that is kept away from every host with
\* a DPU and that still fits every other Node it fitted. Unless a term is empty,
\* and when there are terms in a required affinity, it fits no further Node.
THEOREM ExclusionExact ==
    ASSUME NEW p \in Pods, NEW node \in NodeLabels
    PROVE  LET q == AddAffinityForNonDPUNodes(p)
           IN  /\ q \in Pods
               /\ Matches(q, node) => node.dpu # "host"
               /\ Matches(p, node) /\ node.dpu # "host" => Matches(q, node)
               /\ EmptyTerm \notin p.terms /\ (p.required => p.terms # {}) =>
                      (Matches(q, node) => Matches(p, node))
<1> DEFINE q == AddAffinityForNonDPUNodes(p)
<1>1. /\ p.terms \subseteq Terms /\ (~p.required => p.terms = {})
      /\ p.hostNetwork \in BOOLEAN /\ p.optOut \in BOOLEAN
      /\ p.selector \in SUBSET Labels /\ p.required \in BOOLEAN
      /\ p.named \in BOOLEAN /\ p.vfs \in Nat /\ (~p.named => p.vfs = 0)
      /\ p = [hostNetwork |-> p.hostNetwork, optOut |-> p.optOut,
              selector |-> p.selector, required |-> p.required,
              terms |-> p.terms, named |-> p.named, vfs |-> p.vfs]
    BY DEF Pods
<1> DEFINE ts == IF p.terms = {} THEN {ExcludeDPUTerm}
                 ELSE {Excluding(t) : t \in p.terms}
<1>5. q = [p EXCEPT !.required = TRUE, !.terms = ts]
    BY DEF AddAffinityForNonDPUNodes
<1>2. /\ q.required = TRUE /\ q.selector = p.selector /\ q.vfs = p.vfs
      /\ q.hostNetwork = p.hostNetwork /\ q.optOut = p.optOut /\ q.named = p.named
      /\ q.terms = ts
      /\ q = [hostNetwork |-> q.hostNetwork, optOut |-> q.optOut,
              selector |-> q.selector, required |-> q.required,
              terms |-> q.terms, named |-> q.named, vfs |-> q.vfs]
    <2> HIDE DEF ts, q
    <2>1. QED
        BY <1>1, <1>5 DEF Pods
<1>3. CASE p.terms = {}
    <2>1. q.terms = {ExcludeDPUTerm} /\ ExcludeDPUTerm \in Terms
        BY <1>2, <1>3 DEF ExcludeDPUTerm, Terms
    <2>2. TermMatches(ExcludeDPUTerm, node) <=> node.dpu # "host"
        BY DEF TermMatches, ExcludeDPUTerm, EmptyTerm, ExpressionHolds
    <2>3. q \in Pods
        BY <1>1, <1>2, <2>1 DEF Pods
    <2>4. Matches(q, node) <=> p.selector \subseteq node.has /\ node.dpu # "host"
        BY <1>2, <2>1, <2>2 DEF Matches
    <2>5. QED
        BY <1>3, <2>3, <2>4 DEF Matches
<1>4. CASE p.terms # {}
    <2>1. p.required
        BY <1>1, <1>4
    <2>2. q.terms = {Excluding(t) : t \in p.terms}
        BY <1>2, <1>4
    <2>3. q.terms \subseteq Terms
        BY <1>1, <2>2, ExcludingLemma
    <2>4. q \in Pods
        BY <1>1, <1>2, <2>3 DEF Pods
    <2>5. Matches(q, node) <=>
              /\ p.selector \subseteq node.has
              /\ \E t \in p.terms : TermMatches(Excluding(t), node)
        BY <1>2, <2>2 DEF Matches
    <2>6. Matches(p, node) <=>
              /\ p.selector \subseteq node.has
              /\ \E t \in p.terms : TermMatches(t, node)
        BY <2>1 DEF Matches
    <2>7. QED
        BY <1>1, <2>4, <2>5, <2>6, ExcludingLemma
<1>6. QED
    BY <1>3, <1>4

\* A VF more changes nothing about the Nodes a pod fits.
LEMMA InjectLemma ==
    ASSUME NEW p \in Pods
    PROVE  /\ InjectNetworkResources(p) \in Pods
           /\ InjectNetworkResources(p).vfs = p.vfs + 1
           /\ InjectNetworkResources(p).optOut = p.optOut
           /\ \A node : Matches(InjectNetworkResources(p), node)
                            <=> Matches(p, node)
<1> DEFINE q == InjectNetworkResources(p)
<1>1. q = [p EXCEPT !.named = TRUE, !.vfs = p.vfs + 1]
    BY DEF InjectNetworkResources
<1>2. /\ q.hostNetwork = p.hostNetwork /\ q.optOut = p.optOut
      /\ q.selector = p.selector /\ q.required = p.required
      /\ q.terms = p.terms /\ q.named = TRUE /\ q.vfs = p.vfs + 1
      /\ q = [hostNetwork |-> q.hostNetwork, optOut |-> q.optOut,
              selector |-> q.selector, required |-> q.required,
              terms |-> q.terms, named |-> q.named, vfs |-> q.vfs]
    <2> HIDE DEF q
    <2>1. QED
        BY <1>1 DEF Pods
<1> HIDE DEF q
<1>3. q \in Pods
    <2>1. /\ p.hostNetwork \in BOOLEAN /\ p.optOut \in BOOLEAN
          /\ p.selector \in SUBSET Labels /\ p.required \in BOOLEAN
          /\ p.terms \in SUBSET Terms /\ p.vfs + 1 \in Nat
          /\ (~p.required => p.terms = {})
        BY DEF Pods
    <2>2. QED
        BY <1>2, <2>1 DEF Pods
<1>4. \A node : Matches(q, node) <=> Matches(p, node)
    BY <1>2 DEF Matches
<1>5. QED
    BY <1>2, <1>3, <1>4 DEF q

\* The webhook turns a pod into a pod.
LEMMA DefaultType ==
    ASSUME NEW p \in Pods, NEW view \in Views, NEW prioritize \in BOOLEAN,
           Nodes # {}
    PROVE  Default(p, view, prioritize) \in Pods
<1>1. PICK n \in Nodes : TRUE
    OBVIOUS
<1>2. AddAffinity(p, view, prioritize) => \E m \in Nodes : view[m] \in NodeLabels
    BY DEF AddAffinity, WithDPU, MatchingNodes, Views
<1>3. AddAffinity(p, view, prioritize) => AddAffinityForNonDPUNodes(p) \in Pods
    BY <1>2, ExclusionExact
<1>4. QED
    BY <1>3, InjectLemma DEF Default

-----------------------------------------------------------------------------
\* The initial states satisfy the inductive invariant.
LEMMA InitInv == Init => IInv
BY DEF Init, IInv, TypeOK

\* Creating, binding and deleting pods, changes of Nodes and the progress of the
\* cache preserve the inductive invariant.
LEMMA NextInv == IInv /\ [Next]_vars => IInv'
<1> SUFFICES ASSUME IInv, [Next]_vars PROVE IInv'
    OBVIOUS
<1>1. CASE AdmitPod
    <2>1. PICK p \in PodTemplates : asked' = p /\ pod' = Admitted(p, cache, setting')
        BY <1>1 DEF AdmitPod
    <2>2. p \in Pods /\ cache \in Views /\ setting' \in Settings
        BY <1>1 DEF AdmitPod, IInv, TypeOK
    <2>3. Admitted(p, cache, setting') \in Pods
        <3>1. CASE Nodes = {}
            <4>1. ~AddAffinity(p, cache, setting')
                BY <3>1 DEF AddAffinity, WithDPU, MatchingNodes
            <4>2. QED
                BY <2>2, <4>1, InjectLemma DEF Default, Admitted
        <3>2. CASE Nodes # {}
            BY <2>2, <3>2, DefaultType DEF Admitted
        <3>3. QED
            BY <3>1, <3>2
    <2>4. TypeOK'
        BY <1>1, <2>1, <2>3 DEF AdmitPod, IInv, TypeOK
    <2>5. asked' # None /\ pod' # None /\ pod' = Admitted(asked', seen', setting')
        BY <1>1, <2>1, <2>2, <2>3 DEF AdmitPod
    <2>6. QED
        BY <1>1, <2>4, <2>5 DEF AdmitPod, IInv
<1>2. CASE BindPod
    BY <1>2 DEF BindPod, IInv, TypeOK
<1>3. CASE DeletePod
    BY <1>3 DEF DeletePod, IInv, TypeOK
<1>4. CASE ChangeNode
    BY <1>4 DEF ChangeNode, podVars, IInv, TypeOK, Views
<1>5. CASE CacheCatchesUp
    BY <1>5 DEF CacheCatchesUp, podVars, IInv, TypeOK, Views
<1>6. CASE UNCHANGED vars
    BY <1>6 DEF vars, podVars, IInv, TypeOK
<1>7. QED
    BY <1>1, <1>2, <1>3, <1>4, <1>5, <1>6 DEF Next

\* The inductive invariant of the injector holds.
THEOREM Inductive == Spec => []IInv
BY InitInv, NextInv, PTL DEF Spec

-----------------------------------------------------------------------------
\* A pod of the cluster network that Default leaves without a VF is one whose
\* injection it skips, with the exclusion where it is called for.
LEMMA WithoutVFDecision ==
    ASSUME NEW p \in Pods, NEW view, NEW prioritize \in BOOLEAN,
           ~Default(p, view, prioritize).hostNetwork,
           Default(p, view, prioritize).vfs = 0
    PROVE  /\ ~p.hostNetwork /\ ~p.named
           /\ SkipInjection(p, view, prioritize)
           /\ Default(p, view, prioritize) =
                  IF AddAffinity(p, view, prioritize) THEN AddAffinityForNonDPUNodes(p)
                  ELSE p
<1> DEFINE q == AddAffinityForNonDPUNodes(p)
<1>1. [dpu |-> "missing", has |-> {}] \in NodeLabels
    BY DEF NodeLabels
<1>2. q \in Pods
    BY <1>1, ExclusionExact
<1>3. p.vfs \in Nat /\ q.vfs \in Nat
    BY <1>2 DEF Pods
<1>4. p.hostNetwork = FALSE
    BY <1>2, InjectLemma DEF Default, Pods, InjectNetworkResources,
                             AddAffinityForNonDPUNodes
<1>5. ~p.named
    BY <1>3, <1>4, InjectLemma DEF Default
<1>6. SkipInjection(p, view, prioritize)
    BY <1>2, <1>3, <1>4, <1>5, InjectLemma DEF Default
<1>7. QED
    BY <1>4, <1>5, <1>6 DEF Default

\* Default leaves a pod without a VF only where its kind of Node was seen: the
\* pod then fits no host with a DPU among the Nodes that were seen.
LEMMA WithoutVFLemma ==
    ASSUME NEW p \in Pods, NEW view \in Views, NEW n \in Nodes,
           NEW prioritize \in BOOLEAN,
           view[n] # None, ~Default(p, view, prioritize).hostNetwork,
           Default(p, view, prioritize).vfs = 0, Matches(Default(p, view, prioritize), view[n])
    PROVE  view[n].dpu # "host"
<1> DEFINE q == AddAffinityForNonDPUNodes(p)
<1>1. view[n] \in NodeLabels
    BY DEF Views
<1>2. Matches(q, view[n]) => view[n].dpu # "host"
    BY <1>1, ExclusionExact
<1>3. /\ SkipInjection(p, view, prioritize)
      /\ Default(p, view, prioritize) = IF AddAffinity(p, view, prioritize) THEN q ELSE p
    BY WithoutVFDecision
<1>4. CASE AddAffinity(p, view, prioritize)
    BY <1>2, <1>3, <1>4
<1>5. CASE ~AddAffinity(p, view, prioritize)
    <2>1. SUFFICES ASSUME view[n].dpu = "host" PROVE FALSE
        OBVIOUS
    <2>2. n \in WithDPU(p, view)
        BY <1>3, <1>5, <2>1 DEF WithDPU, MatchingNodes
    <2>3. QED
        BY <1>3, <1>5, <2>2 DEF SkipInjection, AddAffinity
<1>6. QED
    BY <1>4, <1>5

\* The decision against a VF stands: the webhook leaves the pod it has admitted
\* without one, and the exclusion in its terms, as they are when it sees the pod
\* again (addAffinityForNonDPUNodes: "Check if this specific term already has the
\* exclusion to avoid duplicates").
THEOREM DecisionStands ==
    ASSUME NEW p \in Pods, NEW view \in Views, NEW prioritize \in BOOLEAN,
           ~Default(p, view, prioritize).hostNetwork,
           Default(p, view, prioritize).vfs = 0
    PROVE  LET q == Default(p, view, prioritize)
           IN  Default(q, view, prioritize) = q
<1> DEFINE q == Default(p, view, prioritize)
<1>1. /\ SkipInjection(p, view, prioritize)
      /\ q = IF AddAffinity(p, view, prioritize) THEN AddAffinityForNonDPUNodes(p) ELSE p
    BY WithoutVFDecision
<1>2. PICK n \in Nodes : view[n] # None /\ Matches(p, view[n]) /\ view[n].dpu # "host"
    BY <1>1 DEF SkipInjection, WithoutDPU, MatchingNodes
<1>3. view[n] \in NodeLabels
    BY <1>2 DEF Views
<1>4. Matches(q, view[n])
    BY <1>1, <1>2, <1>3, ExclusionExact
<1>5. n \in WithoutDPU(q, view)
    BY <1>2, <1>4 DEF WithoutDPU, MatchingNodes
<1>6. WithDPU(q, view) = {}
    BY WithoutVFLemma DEF WithDPU, MatchingNodes
<1>7. SkipInjection(q, view, prioritize) /\ ~AddAffinity(q, view, prioritize)
    BY <1>5, <1>6 DEF SkipInjection, AddAffinity
<1> HIDE DEF q
<1>8. ~q.hostNetwork /\ ~q.named
    <2>1. ~p.named /\ AddAffinityForNonDPUNodes(p).named = p.named
        BY WithoutVFDecision DEF AddAffinityForNonDPUNodes, Pods
    <2>2. QED
        BY <1>1, <2>1 DEF q
<1>9. Default(q, view, prioritize) = q
    BY <1>7, <1>8 DEF Default
<1>10. QED
    BY <1>9 DEF q

\* A pod of the cluster network gets onto a host with a DPU without a VF only
\* when that Node is not what the webhook saw when it decided.
THEOREM NoVFTheorem == Spec => NoVFOnlyWithoutDPU
<1> DEFINE P == \A n \in Nodes :
                   Binds(n) /\ ~pod.hostNetwork /\ ~pod.optOut /\ pod.vfs = 0
                            /\ nodes[n].dpu = "host" => nodes[n] # seen[n]
<1>1. IInv /\ [Next]_vars => [P]_vars
    <2> SUFFICES ASSUME IInv, Next, NEW n \in Nodes, Binds(n), ~pod.hostNetwork,
                        ~pod.optOut, pod.vfs = 0, nodes[n].dpu = "host", nodes[n] = seen[n]
                 PROVE  FALSE
        BY DEF vars
    <2>1. BindPod
        BY DEF Next, Binds, AdmitPod, DeletePod, ChangeNode, CacheCatchesUp,
               podVars, IInv, TypeOK
    <2>2. pod # None /\ CanRun(pod, nodes[n])
        BY <2>1 DEF BindPod, Binds
    <2>3. asked \in Pods /\ seen \in Views /\ setting \in BOOLEAN
          /\ pod = Admitted(asked, seen, setting)
        BY <2>2 DEF IInv, TypeOK
    <2>4. pod = Default(asked, seen, setting)
        BY <2>3 DEF Admitted
    <2>5. QED
        BY <2>2, <2>3, <2>4, WithoutVFLemma DEF CanRun
<1>2. QED
    BY <1>1, Inductive, PTL DEF Spec, NoVFOnlyWithoutDPU

\* Whatever Default adds to a pod, a Node that was seen can still run it if one
\* could before.
THEOREM SchedulableTheorem == Spec => []KeepsSchedulable
<1>1. IInv => KeepsSchedulable
    <2> SUFFICES ASSUME IInv, pod # None, asked.named => asked.vfs > 0,
                        NEW n \in Nodes, CanRun(asked, seen[n])
                 PROVE  \E m \in Nodes : CanRun(pod, seen[m])
        BY DEF KeepsSchedulable
    <2> DEFINE q == AddAffinityForNonDPUNodes(asked)
    <2>1. asked \in Pods /\ seen \in Views /\ setting \in BOOLEAN
          /\ pod = Admitted(asked, seen, setting)
        BY DEF IInv, TypeOK
    <2>2. n \in MatchingNodes(asked, seen)
        BY DEF CanRun, MatchingNodes
    <2>3. CASE asked.optOut \/ asked.hostNetwork
        BY <2>1, <2>3 DEF Default, Admitted
    <2>4. CASE ~asked.optOut /\ ~asked.hostNetwork /\ asked.named
        BY <2>1, <2>4, InjectLemma DEF Default, Admitted, CanRun, Pods
    <2>5. CASE ~asked.optOut /\ ~asked.hostNetwork /\ ~asked.named
        <3>1. CASE AddAffinity(asked, seen, setting)
            <4>1. PICK m \in Nodes : m \in WithoutDPU(asked, seen)
                BY <3>1 DEF AddAffinity, WithoutDPU, MatchingNodes
            <4>2. SkipInjection(asked, seen, setting)
                BY <3>1 DEF AddAffinity, SkipInjection
            <4>3. pod = q
                BY <2>1, <2>5, <3>1, <4>2 DEF Default, Admitted
            <4>4. seen[m] \in NodeLabels
                BY <2>1, <4>1 DEF WithoutDPU, MatchingNodes, Views
            <4>5. Matches(q, seen[m])
                BY <2>1, <4>1, <4>4, ExclusionExact DEF WithoutDPU, MatchingNodes
            <4>6. ~(q.vfs > 0)
                BY <2>1, <2>5 DEF AddAffinityForNonDPUNodes, Pods
            <4>7. QED
                BY <4>3, <4>4, <4>5, <4>6 DEF CanRun
        <3>2. CASE ~AddAffinity(asked, seen, setting) /\ SkipInjection(asked, seen, setting)
            BY <2>1, <2>5, <3>2 DEF Default, Admitted
        <3>3. CASE ~AddAffinity(asked, seen, setting) /\ ~SkipInjection(asked, seen, setting)
            <4>1. pod = InjectNetworkResources(asked)
                BY <2>1, <2>5, <3>3 DEF Default, Admitted
            <4>2. PICK m \in Nodes : m \in WithDPU(asked, seen)
                BY <2>2, <3>3
                DEF SkipInjection, WithDPU, WithoutDPU, MatchingNodes
            <4>3. QED
                BY <2>1, <4>1, <4>2, InjectLemma
                DEF CanRun, WithDPU, MatchingNodes
        <3>4. QED
            BY <3>1, <3>2, <3>3
    <2>6. QED
        BY <2>3, <2>4, <2>5
<1>2. QED
    BY <1>1, Inductive, PTL

\* When no pod has an empty affinity term, a pod runs only where its own
\* selectors allow.
THEOREM RunsWhereAskedTheorem ==
    ASSUME \A p \in PodTemplates : EmptyTerm \notin p.terms
    PROVE  Spec => RunsWhereAsked
<1>1. IInv /\ [Next]_vars =>
          [\A n \in Nodes : Binds(n) => Matches(asked, nodes[n])]_vars
    <2> SUFFICES ASSUME IInv, Next, NEW n \in Nodes, Binds(n)
                 PROVE  Matches(asked, nodes[n])
        BY DEF vars
    <2> DEFINE q == AddAffinityForNonDPUNodes(asked)
    <2>1. BindPod
        BY DEF Next, Binds, AdmitPod, DeletePod, ChangeNode, CacheCatchesUp,
               podVars, IInv, TypeOK
    <2>2. pod # None /\ Matches(pod, nodes[n]) /\ nodes[n] \in NodeLabels
        BY <2>1 DEF BindPod, Binds, CanRun, IInv, TypeOK, Views
    <2>3. /\ asked \in Pods /\ seen \in Views /\ setting \in BOOLEAN
          /\ pod = Admitted(asked, seen, setting)
          /\ EmptyTerm \notin asked.terms
        BY <2>2 DEF IInv, TypeOK
    <2>4. CASE AddAffinity(asked, seen, setting)
        <3>1. asked.required => asked.terms # {}
            BY <2>4 DEF AddAffinity, WithDPU, MatchingNodes, Matches
        <3>2. Matches(q, nodes[n]) => Matches(asked, nodes[n])
            BY <2>2, <2>3, <3>1, ExclusionExact
        <3>3. q \in Pods
            BY <2>2, <2>3, ExclusionExact
        <3>4. QED
            BY <2>2, <2>3, <2>4, <3>2, <3>3, InjectLemma DEF Default, Admitted
    <2>5. CASE ~AddAffinity(asked, seen, setting)
        BY <2>2, <2>3, <2>5, InjectLemma DEF Default, Admitted
    <2>6. QED
        BY <2>4, <2>5
<1>2. QED
    BY <1>1, Inductive, PTL DEF Spec, RunsWhereAsked

=============================================================================
