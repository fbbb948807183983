-------------------------- MODULE MCStartupConfig --------------------------
(***************************************************************************)
(* Environments for StartupConfig: every mode, the boundaries of the lease *)
(* and of the MTU, each kind of text, and settings that are missing, each  *)
(* with the other settings in order.                                       *)
(***************************************************************************)
EXTENDS StartupConfig

Num(n) == [kind |-> "number", value |-> n]
Text(k) == [kind |-> k, value |-> 10]

Good(m) ==
    [mode |-> m, bad |-> {}, mtu |-> Num(1400), renew |-> Num(10),
     dur |-> Text("unset"), ns |-> TRUE, apiServer |-> FALSE]
Modes == {"internal-ipam", "external-ipam"}
Others == Kinds \ {"number"}

Leases ==
    {Num(n) : n \in {-1, 0, 1, 39, 40, 41}} \cup {Text(k) : k \in Others}
Durations == {Num(n) : n \in {-1, 0, 1, 40}} \cup {Text(k) : k \in Others}
Mtus ==
    {Num(n) : n \in {-1400, -60, -1, 1, 9156, 9157, MaxInt}} \cup {Text(k) : k \in Others}

\* The renew interval with the default duration, the duration with a renew interval
\* in order and with none, and the two around each other.
LeasesMC ==
    {<<r, Text("unset")>> : r \in Leases}
    \cup {<<r, d>> : r \in {Num(10), Text("unset")}, d \in Durations}
    \cup {<<Num(n), Num(40)>> : n \in {39, 40, 41}}

\* Each setting by itself, and the lease with its duration.
ValuesMC ==
    {[Good("external-ipam") EXCEPT !.renew = l[1], !.dur = l[2]] : l \in LeasesMC}
    \cup {[Good("internal-ipam") EXCEPT !.mtu = m, !.apiServer = b] :
        m \in Mtus \cup {Num(0)}, b \in BOOLEAN}
    \cup {[Good(m) EXCEPT !.bad = b] : m \in Modes \cup {"dpu"},
                                       b \in {{}} \cup {{r} : r \in Required}}
    \cup {[Good(m) EXCEPT !.ns = FALSE, !.apiServer = TRUE] : m \in Modes}

NegativeMC ==
    {[Good("internal-ipam") EXCEPT !.mtu = Num(n)] : n \in {-1400, -1, 1, 1400}}

ZeroMC == {[Good("external-ipam") EXCEPT !.renew = Num(0)]}

=============================================================================
