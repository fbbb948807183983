------------------------- MODULE MCNetworkInjector -------------------------
(***************************************************************************)
(* Values for model-checking NetworkInjector: pods with at most two        *)
(* affinity terms, each with at most one expression on the DPU label.      *)
(***************************************************************************)
EXTENDS NetworkInjector, FiniteSetsExt

SmallTerms == {t \in Terms : Cardinality(t.dpu) <= 1}

\* An affinity with some of these terms, or none at all; a pod that asks for a VF,
\* one that names the resource and asks for none, and one that has opted out.
PodsWith(terms) ==
    LET Pod(hostNetwork, selector, required, ts, vfs) ==
            [hostNetwork |-> hostNetwork, optOut |-> FALSE, selector |-> selector,
             required |-> required, terms |-> ts, named |-> vfs > 0, vfs |-> vfs]
        Bare == Pod(FALSE, {}, FALSE, {}, 0)
    IN  {Pod(FALSE, s, TRUE, ts, 0) : s \in SUBSET Labels,
             ts \in UNION {kSubset(k, terms) : k \in 0..2}}
        \cup {Pod(hn, s, FALSE, {}, 0) : hn \in BOOLEAN, s \in SUBSET Labels}
        \cup {Pod(FALSE, {}, FALSE, {}, 1), [Bare EXCEPT !.named = TRUE],
              [Bare EXCEPT !.optOut = TRUE]}

\* Affinities without an empty term, and with one.
McPods == PodsWith(SmallTerms \ {EmptyTerm})
McPodsEmptyTerm == PodsWith({t \in SmallTerms : t.dpu = {}})

=============================================================================
