--------------------------- MODULE MCProvisioner ---------------------------
(***************************************************************************)
(* Values for model-checking Provisioner: two host names, two addresses of *)
(* br-ovn in different networks, one of them the network of all VTEPs.     *)
(***************************************************************************)
EXTENDS ProvisionerProps

CONSTANTS h1, h2, a1, a2, n1, n2, g1, g2

\* The new label alone, the legacy one alone, and a blank new label that hides
\* the legacy one.
McLabels == {[new |-> h1, legacy |-> h2], [new |-> Absent, legacy |-> h2],
             [new |-> Empty, legacy |-> h2]}

McTwoLabels == {[new |-> h1, legacy |-> h2], [new |-> Absent, legacy |-> h2]}

McNetOf == [a \in Addrs |-> IF a = a1 THEN n1 ELSE n2]

McAllocs == {[addr |-> a1, gw |-> g1], [addr |-> a2, gw |-> g2]}

McOneAlloc == {[addr |-> a1, gw |-> g1]}

=============================================================================
