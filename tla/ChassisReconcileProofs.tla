----------------------- MODULE ChassisReconcileProofs -----------------------
(***************************************************************************)
(* The reconciliation of the chassis annotation implements HostChassis, for *)
(* any number of reprovisionings, updates of the Node and failures.        *)
(***************************************************************************)
EXTENDS ChassisReconcile, TLAPS

\* A patch changes nothing, or withdraws a stale id and thereby outdates every
\* other patch. This is what the optimistic lock of reconcileHostNodeChassisID
\* is for.
LEMMA PatchedLemma ==
    ASSUME IInv, NEW v \in Nat, FitsStale(v)
    PROVE  /\ Patched(v) \in [chassis : Nat \cup {None}, rv : Nat]
           /\ \/ Patched(v) = node
              \/ /\ node.chassis \notin {None, sid}
                 /\ Patched(v).chassis = None
                 /\ Patched(v).rv = node.rv + 1
BY DEF IInv, TypeOK, FitsStale, Patched

\* When the Node is as it was, or has a later version, whatever is on its way
\* still fits only a stale id.
LEMMA FitsStaleLemma ==
    ASSUME IInv, NEW v \in Nat, FitsStale(v),
           node' \in [chassis : Nat \cup {None}, rv : Nat],
           \/ node' = node /\ (sid' = sid \/ sid' = sid + 1)
           \/ node'.rv = node.rv + 1
    PROVE  FitsStale(v)'
BY NoneAssumption DEF IInv, TypeOK, FitsStale

\* The initial states satisfy the inductive invariant.
LEMMA InitInv == Init => IInv
BY NoneAssumption, BoundAssumption DEF Init, IInv, TypeOK

\* Every step of a pass, of ovnkube-node, of others and of the installation of
\* the DPU preserves the inductive invariant.
LEMMA NextInv == IInv /\ [Next]_vars => IInv'
<1> SUFFICES ASSUME IInv, [Next]_vars PROVE IInv'
    OBVIOUS
<1> USE NoneAssumption, BoundAssumption
<1>1. CASE ReadSystemID
    BY <1>1 DEF IInv, TypeOK, ReadSystemID, FitsStale
<1>2. CASE GetHostNode
    BY <1>2 DEF IInv, TypeOK, GetHostNode, FitsStale
<1>3. CASE PatchAnswered
    <2>1. version \in Nat /\ FitsStale(version)
        BY <1>3 DEF PatchAnswered, IInv, TypeOK
    <2>2. /\ node' \in [chassis : Nat \cup {None}, rv : Nat]
          /\ node' = node \/ (node'.chassis = None /\ node'.rv = node.rv + 1)
        BY <1>3, <2>1, PatchedLemma DEF PatchAnswered
    <2>3. \A v \in orphans' : FitsStale(v)'
        BY <1>3, <2>2, FitsStaleLemma DEF PatchAnswered, IInv, TypeOK
    <2>4. TypeOK'
        BY <1>3, <2>2 DEF PatchAnswered, IInv, TypeOK
    <2>5. QED
        BY <1>3, <2>2, <2>3, <2>4 DEF PatchAnswered, IInv
<1>4. CASE CallFails
    <2>1. TypeOK'
        BY <1>4 DEF CallFails, IInv, TypeOK
    <2>2. \A v \in orphans' : FitsStale(v)'
        BY <1>4 DEF CallFails, IInv, TypeOK, FitsStale
    <2>3. QED
        BY <1>4, <2>1, <2>2 DEF CallFails, IInv
<1>5. CASE OrphanArrives
    <2>1. PICK v \in orphans : node' = Patched(v) /\ orphans' = orphans \ {v}
        BY <1>5 DEF OrphanArrives
    <2>2. v \in Nat /\ FitsStale(v)
        BY DEF IInv, TypeOK
    <2>3. /\ node' \in [chassis : Nat \cup {None}, rv : Nat]
          /\ node' = node \/ (node'.chassis = None /\ node'.rv = node.rv + 1)
        BY <2>1, <2>2, PatchedLemma
    <2>4. TypeOK'
        BY <1>5, <2>1, <2>3 DEF OrphanArrives, passVars, IInv, TypeOK
    <2>5. \A w \in orphans' : FitsStale(w)'
        BY <1>5, <2>1, <2>3, FitsStaleLemma
        DEF OrphanArrives, passVars, IInv, TypeOK
    <2>6. pc' = "wait" => FitsStale(version)'
        BY <1>5, <2>3, FitsStaleLemma DEF OrphanArrives, passVars, IInv, TypeOK
    <2>7. QED
        BY <1>5, <2>3, <2>4, <2>5, <2>6 DEF OrphanArrives, passVars, IInv
<1>6. CASE StartRegister
    BY <1>6 DEF IInv, TypeOK, StartRegister, passVars, FitsStale
<1>7. CASE FinishRegister
    <2>1. /\ node' \in [chassis : Nat \cup {None}, rv : Nat]
          /\ \/ node' = node
             \/ node'.chassis = registering /\ node'.rv = node.rv + 1
        BY <1>7 DEF FinishRegister, IInv, TypeOK
    <2>2. TypeOK'
        BY <1>7, <2>1 DEF FinishRegister, passVars, IInv, TypeOK
    <2>3. \A w \in orphans' : FitsStale(w)'
        BY <1>7, <2>1, FitsStaleLemma
        DEF FinishRegister, passVars, IInv, TypeOK
    <2>4. pc' = "wait" => FitsStale(version)'
        BY <1>7, <2>1, FitsStaleLemma DEF FinishRegister, passVars, IInv, TypeOK
    <2>5. QED
        BY <1>7, <2>1, <2>2, <2>3, <2>4 DEF FinishRegister, passVars, IInv
<1>8. CASE TouchNode
    <2>1. /\ node' \in [chassis : Nat \cup {None}, rv : Nat]
          /\ node'.chassis = node.chassis /\ node'.rv = node.rv + 1
        BY <1>8 DEF TouchNode, IInv, TypeOK
    <2>2. TypeOK'
        BY <1>8, <2>1 DEF TouchNode, passVars, IInv, TypeOK
    <2>3. \A w \in orphans' : FitsStale(w)'
        BY <1>8, <2>1, FitsStaleLemma DEF TouchNode, passVars, IInv, TypeOK
    <2>4. pc' = "wait" => FitsStale(version)'
        BY <1>8, <2>1, FitsStaleLemma DEF TouchNode, passVars, IInv, TypeOK
    <2>5. QED
        BY <1>8, <2>1, <2>2, <2>3, <2>4 DEF TouchNode, passVars, IInv
<1>9. CASE Reprovision
    <2>1. TypeOK'
        BY <1>9 DEF Reprovision, IInv, TypeOK
    <2>2. \A v \in orphans' : FitsStale(v)'
        BY <1>9 DEF Reprovision, IInv, TypeOK, FitsStale
    <2>3. /\ node'.chassis # None => node'.chassis <= sid'
          /\ registering' # None => registering' <= sid'
          /\ pc' = "idle"
        BY <1>9 DEF Reprovision, IInv, TypeOK
    <2>4. QED
        BY <2>1, <2>2, <2>3 DEF IInv
<1>10. CASE UNCHANGED vars
    BY <1>10 DEF vars, passVars, IInv, TypeOK, FitsStale
<1>11. QED
    BY <1>1, <1>2, <1>3, <1>4, <1>5, <1>6, <1>7, <1>8, <1>9, <1>10 DEF Next

\* The inductive invariant of the reconciliation holds.
THEOREM Inductive == Spec => []IInv
BY InitInv, NextInv, PTL DEF Spec

-----------------------------------------------------------------------------
\* A step of the detailed specification is a step of HostChassis, or none.
LEMMA StepSimulation == IInv /\ [Next]_vars => [Promise!Next]_(Promise!vars)
<1> SUFFICES ASSUME IInv, [Next]_vars PROVE [Promise!Next]_(Promise!vars)
    OBVIOUS
<1> USE NoneAssumption
<1>1. CASE ReadSystemID
    BY <1>1 DEF ReadSystemID, Promise!vars
<1>2. CASE GetHostNode
    BY <1>2 DEF GetHostNode, Promise!vars
<1>3. CASE PatchAnswered
    <2>1. version \in Nat /\ FitsStale(version)
        BY <1>3 DEF PatchAnswered, IInv, TypeOK
    <2>2. node' = Patched(version) /\ UNCHANGED sid
        BY <1>3 DEF PatchAnswered
    <2>3. QED
        BY <2>1, <2>2, PatchedLemma
        DEF Promise!Next, Promise!Withdraw, Promise!vars
<1>4. CASE CallFails
    BY <1>4 DEF CallFails, Promise!vars
<1>5. CASE OrphanArrives
    <2>1. PICK v \in orphans : node' = Patched(v)
        BY <1>5 DEF OrphanArrives
    <2>2. v \in Nat /\ FitsStale(v) /\ UNCHANGED sid
        BY <1>5 DEF OrphanArrives, IInv, TypeOK
    <2>3. QED
        BY <2>1, <2>2, PatchedLemma
        DEF Promise!Next, Promise!Withdraw, Promise!vars
<1>6. CASE StartRegister
    BY <1>6 DEF StartRegister, Promise!vars
<1>7. CASE FinishRegister
    BY <1>7
    DEF FinishRegister, IInv, TypeOK, Promise!Next, Promise!Register,
        Promise!vars
<1>8. CASE TouchNode
    BY <1>8 DEF TouchNode, IInv, TypeOK, Promise!vars
<1>9. CASE Reprovision
    BY <1>9 DEF Reprovision, Promise!Next, Promise!Reprovision
<1>10. CASE UNCHANGED vars
    BY <1>10 DEF vars, Promise!vars
<1>11. QED
    BY <1>1, <1>2, <1>3, <1>4, <1>5, <1>6, <1>7, <1>8, <1>9, <1>10 DEF Next

\* The live id of the DPU is never removed from the Node of the host, however
\* patches are delayed, lost or overtaken: reconcileHostNodeChassisID, together
\* with ovnkube-node, implements HostChassis.
THEOREM Implements == Spec => KeepsPromise
<1>1. Init => Promise!Init
    BY DEF Init, Promise!Init
<1>2. IInv /\ [Next]_vars => [Promise!Next]_(Promise!vars)
    BY StepSimulation
<1>3. QED
    BY <1>1, <1>2, Inductive, PTL DEF Spec, KeepsPromise, Promise!Spec

=============================================================================
