-------------------------- MODULE OVSClientProofs --------------------------
(***************************************************************************)
(* Proofs about the OVS client, for any bridges, ports, types and external *)
(* ids and any number of failing runs: what it leaves in the database, and *)
(* how it reads the system-id.                                             *)
(*                                                                         *)
(* What the parser of external ids computes is left to TLC: Split and      *)
(* Joined are folds, and a fact about them takes an induction over texts.  *)
(***************************************************************************)
EXTENDS OVSClient, SequenceTheorems, TLAPS

\* Texts with the symbols that matter to the trimming.
Symbol == STRING \cup Blanks \cup {Quote}
Text == Seq(Symbol)

-----------------------------------------------------------------------------
(***************************************************************************)
(* Trimming.                                                               *)
(***************************************************************************)

\* A text of one symbol.
LEMMA OneSymbol ==
    ASSUME NEW c \in Symbol
    PROVE  <<c>> \in Text /\ Len(<<c>>) = 1 /\ <<c>>[1] = c
  BY DEF Text

\* TrimAll cuts a text to what lies between the first and the last symbol that stay.
LEMMA Trimmed ==
    ASSUME NEW s \in Text, NEW cut,
           NEW a \in DOMAIN s, NEW b \in DOMAIN s,
           s[a] \notin cut, s[b] \notin cut,
           \A i \in DOMAIN s : i < a \/ b < i => s[i] \in cut
    PROVE  TrimAll(s, cut) = SubSeq(s, a, b)
  <1> DEFINE kept == {i \in DOMAIN s : s[i] \notin cut}
  <1>1. DOMAIN s \subseteq Int
    BY LenProperties DEF Text
  <1>2. /\ a \in kept /\ b \in kept /\ kept \subseteq Int
        /\ \A i \in kept : a <= i /\ i <= b
    BY <1>1
  <1> HIDE DEF kept
  <1>3. Min(kept) = a
    BY <1>2 DEF Min
  <1>4. Max(kept) = b
    BY <1>2 DEF Max
  <1> QED  BY <1>2, <1>3, <1>4 DEF TrimAll, kept

\* Nothing is left of a text of symbols that are cut off.
LEMMA TrimmedAway ==
    ASSUME NEW s, NEW cut, \A i \in DOMAIN s : s[i] \in cut
    PROVE  TrimAll(s, cut) = <<>>
  BY DEF TrimAll

\* The line end behind a text that begins and ends with other than blanks is all
\* that TrimSpace takes away.
LEMMA LineTrimmed ==
    ASSUME NEW t \in Text, t # <<>>, t[1] \notin Blanks, t[Len(t)] \notin Blanks
    PROVE  TrimBlanks(t \o <<"\n">>) = t
  <1> DEFINE out == t \o <<"\n">>
  <1>1. Len(t) \in Nat \ {0}
    BY EmptySeq DEF Text
  <1>2. <<"\n">> \in Text /\ Len(<<"\n">>) = 1 /\ <<"\n">>[1] = "\n"
    BY OneSymbol DEF Symbol, Blanks
  <1>3. /\ out \in Text /\ Len(out) = Len(t) + 1
        /\ \A i \in 1..(Len(t) + 1) : out[i] = IF i <= Len(t) THEN t[i] ELSE "\n"
    BY <1>1, <1>2, ConcatProperties DEF Text
  <1>4. DOMAIN out = 1..(Len(t) + 1)
    BY <1>3, LenProperties DEF Text
  <1> HIDE DEF out
  <1>5. out[1] = t[1] /\ out[Len(t)] = t[Len(t)] /\ out[Len(t) + 1] \in Blanks
    <2>1. 1 \in 1..(Len(t) + 1) /\ Len(t) \in 1..(Len(t) + 1)
          /\ Len(t) + 1 \in 1..(Len(t) + 1)
      BY <1>1
    <2>2. out[1] = t[1] /\ out[Len(t)] = t[Len(t)]
      BY <1>1, <1>3, <2>1
    <2>3. out[Len(t) + 1] = "\n"
      BY <1>1, <1>3, <2>1
    <2> QED  BY <2>2, <2>3 DEF Blanks
  <1>6. TrimAll(out, Blanks) = SubSeq(out, 1, Len(t))
    <2>1. 1 \in DOMAIN out /\ Len(t) \in DOMAIN out
      BY <1>1, <1>4
    <2>2. \A i \in DOMAIN out : i < 1 \/ Len(t) < i => out[i] \in Blanks
      BY <1>1, <1>4, <1>5
    <2> QED  BY <1>3, <1>5, <2>1, <2>2, Trimmed
  <1>7. SubSeq(out, 1, Len(t)) = t
    BY <1>1, <1>2, SubSeqOfConcat1, SubSeqFull DEF out, Text
  <1> QED  BY <1>6, <1>7 DEF TrimBlanks, out

\* The quotes around a text that holds none are all that Trim takes away.
LEMMA Unquoted ==
    ASSUME NEW v \in Text, ~Contains(v, Quote)
    PROVE  TrimAll(<<Quote>> \o v \o <<Quote>>, {Quote}) = v
  <1> DEFINE n == Len(v)
             s == <<Quote>> \o v \o <<Quote>>
  <1>1. n \in Nat
    BY LenProperties DEF Text
  <1>2. /\ <<Quote>> \in Text /\ Len(<<Quote>>) = 1 /\ <<Quote>>[1] = Quote
    BY OneSymbol DEF Symbol
  <1>3. /\ <<Quote>> \o v \in Text /\ Len(<<Quote>> \o v) = n + 1
        /\ \A i \in 1..(n + 1) : (<<Quote>> \o v)[i] = IF i <= 1 THEN Quote ELSE v[i - 1]
    BY <1>1, <1>2, ConcatProperties DEF Text
  <1>4. /\ s \in Text /\ Len(s) = n + 2
        /\ \A i \in 1..(n + 2) : s[i] = IF i <= n + 1 THEN (<<Quote>> \o v)[i] ELSE Quote
    BY <1>1, <1>2, <1>3, ConcatProperties DEF Text
  <1> HIDE DEF s
  <1>5. /\ DOMAIN s = 1..(n + 2) /\ s[1] = Quote /\ s[n + 2] = Quote
        /\ \A i \in 1..n : s[i + 1] = v[i]
    BY <1>1, <1>3, <1>4, LenProperties DEF Text
  <1>6. \A i \in 1..n : v[i] # Quote
    BY DEF Contains
  <1>7. CASE n = 0
    <2>1. v = <<>>
      BY <1>7, EmptySeq DEF Text
    <2>2. \A i \in DOMAIN s : s[i] \in {Quote}
      BY <1>5, <1>7
    <2>3. TrimAll(s, {Quote}) = <<>>
      BY <2>2, TrimmedAway
    <2> QED  BY <2>1, <2>3 DEF s
  <1>8. CASE n # 0
    <2>1. 2 \in DOMAIN s /\ n + 1 \in DOMAIN s
      BY <1>1, <1>5, <1>8
    <2>2. s[2] \notin {Quote} /\ s[n + 1] \notin {Quote}
      <3>1. 1 \in 1..n /\ n \in 1..n
        BY <1>1, <1>8
      <3> QED  BY <3>1, <1>5, <1>6
    <2>3. \A i \in DOMAIN s : i < 2 \/ n + 1 < i => s[i] \in {Quote}
      BY <1>1, <1>5
    <2>4. TrimAll(s, {Quote}) = SubSeq(s, 2, n + 1)
      BY <1>4, <2>1, <2>2, <2>3, Trimmed
    <2>5. SubSeq(s, 2, n + 1) = v
      <3>1. \A i \in 2..(n + 1) : s[i] \in Symbol
        BY <1>1, <1>4, <1>5, ElementOfSeq DEF Text
      <3>2. /\ SubSeq(s, 2, n + 1) \in Text /\ Len(SubSeq(s, 2, n + 1)) = n
            /\ \A i \in 1..n : SubSeq(s, 2, n + 1)[i] = s[i + 1]
        BY <1>1, <1>8, <3>1, SubSeqProperties DEF Text
      <3> QED  BY <1>1, <1>5, <3>2, SeqEqual DEF Text
    <2> QED  BY <2>4, <2>5 DEF s
  <1> QED  BY <1>7, <1>8

-----------------------------------------------------------------------------
(***************************************************************************)
(* The inductive invariant.                                                *)
(***************************************************************************)

\* A run of ovs-vsctl commits the whole of its transaction or nothing.
LEMMA TransactionEffect ==
    ASSUME TypeOK, NEW ok, NEW newBridges, NEW newPorts,
           Transaction(ok, newBridges, newPorts)
    PROVE  /\ systemID' = systemID /\ faults' \in 0..MaxFaults
           /\ \/ ok /\ bridges' = newBridges /\ ports' = newPorts
              \/ bridges' = bridges /\ ports' = ports
  <1>1. faults' \in {faults, faults + 1} /\ (faults' # faults => faults < MaxFaults)
    BY DEF Transaction, Fault
  <1>2. faults' \in 0..MaxFaults
    BY <1>1, BoundAssumption DEF TypeOK
  <1> QED  BY <1>2 DEF Transaction

\* A port is added bare, or with all of its metadata.
LEMMA PortsAdded ==
    ASSUME NEW b \in Bridges
    PROVE  /\ Bare(b) \in Port /\ Bare(b).bridge = b
           /\ \A m \in Metadata :
                  /\ WithMetadata(b, m) \in Port /\ WithMetadata(b, m).bridge = b
                  /\ WithMetadata(b, m).request = m.request
                  /\ WithMetadata(b, m).portIDs = m.portIDs
                  /\ WithMetadata(b, m).ifaceIDs = m.ifaceIDs
  BY MapsAssumption DEF Bare, WithMetadata, Port, Metadata

\* The database of the first state is empty.
LEMMA InitIInv == Init => IInv
  BY BoundAssumption
     DEF Init, IInv, TypeOK, EveryPortInABridge, AddedWhole, BridgeOf

\* The invariant behind a step, in the form in which the actions establish it: each
\* port that is there is in a bridge, with all that was asked.
LEMMA PortByPort ==
    ASSUME IInv, bridges' \subseteq Bridges,
           systemID' \in SystemIDs \cup {None}, faults' \in 0..MaxFaults,
           ports' \in [Ports -> Port \cup {None}],
           asked' \in [Ports -> Metadata \cup {None}],
           \A p \in Ports : ports'[p] # None =>
               /\ ports'[p].bridge \in bridges'
               /\ asked'[p] # None =>
                      /\ ports'[p].request = asked'[p].request
                      /\ ports'[p].portIDs = asked'[p].portIDs
                      /\ ports'[p].ifaceIDs = asked'[p].ifaceIDs
    PROVE  IInv'
  <1>1. TypeOK'
    BY DEF TypeOK
  <1>2. EveryPortInABridge'
    BY DEF EveryPortInABridge, BridgeOf
  <1>3. AddedWhole'
    BY DEF AddedWhole
  <1> QED  BY <1>1, <1>2, <1>3 DEF IInv

\* What Forgotten leaves in the history.
LEMMA ForgottenEffect ==
    ASSUME TypeOK, NEW P \in SUBSET Ports, Forgotten(P)
    PROVE  /\ asked' \in [Ports -> Metadata \cup {None}]
           /\ \A p \in Ports : asked'[p] = IF p \in P THEN None ELSE asked[p]
  BY DEF TypeOK, Forgotten

\* A bridge is added or deleted, with its ports: no port is left without a bridge.
LEMMA BridgeStep ==
    ASSUME IInv, NEW b \in Bridges,
           AddBridgeIfNotExists(b) \/ DeleteBridgeIfExists(b)
    PROVE  IInv'
  <1>0. TypeOK /\ EveryPortInABridge /\ AddedWhole
    BY DEF IInv
  <1>1. CASE AddBridgeIfNotExists(b)
    <2>1. /\ systemID' = systemID /\ faults' \in 0..MaxFaults /\ ports' = ports
          /\ bridges' \in {bridges, bridges \cup {b}} /\ asked' = asked
      <3>1. Transaction(TRUE, bridges \cup {b}, ports) /\ asked' = asked
        BY <1>1 DEF AddBridgeIfNotExists
      <3> QED  BY <1>0, <3>1, TransactionEffect
    <2> QED  BY <1>0, <2>1, PortByPort
             DEF TypeOK, EveryPortInABridge, BridgeOf, AddedWhole
  <1>2. CASE DeleteBridgeIfExists(b)
    <2> DEFINE left == [p \in Ports |-> IF p \in PortsOf(b) THEN None ELSE ports[p]]
    <2>1. Transaction(TRUE, bridges \ {b}, left) /\ Forgotten(PortsOf(b))
      BY <1>2 DEF DeleteBridgeIfExists
    <2>2. PortsOf(b) \subseteq Ports
      BY DEF PortsOf
    <2>3. /\ asked' \in [Ports -> Metadata \cup {None}]
          /\ \A p \in Ports :
                 asked'[p] = IF p \in PortsOf(b) THEN None ELSE asked[p]
      BY <1>0, <2>1, <2>2, ForgottenEffect
    <2>4. /\ left \in [Ports -> Port \cup {None}]
          /\ \A p \in Ports : left[p] # None =>
                 left[p] = ports[p] /\ ports[p] # None /\ ports[p].bridge \in bridges \ {b}
      BY <1>0 DEF TypeOK, EveryPortInABridge, BridgeOf, PortsOf
    <2> HIDE DEF left
    <2>5. /\ systemID' = systemID /\ faults' \in 0..MaxFaults
          /\ \/ bridges' = bridges \ {b} /\ ports' = left
             \/ bridges' = bridges /\ ports' = ports
      BY <1>0, <2>1, TransactionEffect
    <2>6. \A p \in Ports : ports'[p] # None =>
              ports'[p] = ports[p] /\ ports[p].bridge \in bridges'
      BY <1>0, <2>4, <2>5 DEF EveryPortInABridge, BridgeOf
    <2>7. ports' \in [Ports -> Port \cup {None}] /\ bridges' \subseteq Bridges
      BY <1>0, <2>4, <2>5 DEF TypeOK
    <2> QED  BY <1>0, <2>3, <2>5, <2>6, <2>7, PortByPort DEF TypeOK, AddedWhole
  <1> QED  BY <1>1, <1>2

\* A port is added without metadata, changes its type or is deleted: what was asked of
\* a port that goes is forgotten.
LEMMA PortStep ==
    ASSUME IInv, NEW p \in Ports,
           \/ \E b \in Bridges : AddPortIfNotExists(b, p)
           \/ \E t \in Types : SetPortType(p, t)
           \/ DeletePort(p)
    PROVE  IInv'
  <1>0. TypeOK /\ EveryPortInABridge /\ AddedWhole
    BY DEF IInv
  <1>1. ASSUME NEW b \in Bridges, AddPortIfNotExists(b, p)
        PROVE  IInv'
    <2> DEFINE new == IF ports[p] = None THEN [ports EXCEPT ![p] = Bare(b)] ELSE ports
               gone == IF ports[p] = None THEN {p} ELSE {}
    <2>1. Transaction(b \in bridges /\ BridgeOf(p) \in {b, None}, bridges, new)
            /\ Forgotten(gone)
      BY <1>1 DEF AddPortIfNotExists
    <2>2. /\ asked' \in [Ports -> Metadata \cup {None}]
          /\ \A q \in Ports : asked'[q] = IF q \in gone THEN None ELSE asked[q]
      BY <1>0, <2>1, ForgottenEffect
    <2>3. /\ new \in [Ports -> Port \cup {None}]
          /\ \A q \in Ports : new[q] = ports[q] \/ (q \in gone /\ new[q] = Bare(b))
      BY <1>0, PortsAdded DEF TypeOK
    <2> HIDE DEF new, gone
    <2>4. /\ systemID' = systemID /\ faults' \in 0..MaxFaults /\ bridges' = bridges
          /\ (b \in bridges /\ ports' = new) \/ ports' = ports
      BY <1>0, <2>1, TransactionEffect
    <2>5. \A q \in Ports : ports'[q] # None =>
              /\ ports'[q].bridge \in bridges'
              /\ asked'[q] # None => ports'[q] = ports[q] /\ asked'[q] = asked[q]
      BY <1>0, <2>2, <2>3, <2>4, PortsAdded DEF EveryPortInABridge, BridgeOf
    <2>6. ports' \in [Ports -> Port \cup {None}]
      BY <1>0, <2>3, <2>4 DEF TypeOK
    <2> QED  BY <1>0, <2>2, <2>4, <2>5, <2>6, PortByPort DEF TypeOK, AddedWhole
  <1>2. ASSUME NEW t \in Types, SetPortType(p, t)
        PROVE  IInv'
    <2> DEFINE new == IF ports[p] = None THEN ports ELSE [ports EXCEPT ![p].type = t]
    <2>1. Transaction(ports[p] # None, bridges, new) /\ asked' = asked
      BY <1>2 DEF SetPortType
    <2>2. /\ new \in [Ports -> Port \cup {None}]
          /\ \A q \in Ports : new[q] # None =>
                 /\ ports[q] # None /\ new[q].bridge = ports[q].bridge
                 /\ new[q].request = ports[q].request
                 /\ new[q].portIDs = ports[q].portIDs
                 /\ new[q].ifaceIDs = ports[q].ifaceIDs
      <3>1. CASE ports[p] = None
        BY <1>0, <3>1 DEF TypeOK
      <3>2. CASE ports[p] # None
        <4>1. ports[p] \in Port
          BY <1>0, <3>2 DEF TypeOK
        <4>2. new = [ports EXCEPT ![p] = [ports[p] EXCEPT !.type = t]]
          BY <3>2
        <4> QED  BY <1>0, <3>2, <4>1, <4>2 DEF TypeOK, Port
      <3> QED  BY <3>1, <3>2
    <2> HIDE DEF new
    <2>3. /\ systemID' = systemID /\ faults' \in 0..MaxFaults /\ bridges' = bridges
          /\ ports' = new \/ ports' = ports
      BY <1>0, <2>1, TransactionEffect
    <2> QED  BY <1>0, <2>1, <2>2, <2>3, PortByPort
             DEF TypeOK, EveryPortInABridge, BridgeOf, AddedWhole
  <1>3. CASE DeletePort(p)
    <2>1. Transaction(ports[p] # None, bridges, [ports EXCEPT ![p] = None])
            /\ Forgotten({p})
      BY <1>3 DEF DeletePort
    <2>2. /\ asked' \in [Ports -> Metadata \cup {None}]
          /\ \A q \in Ports : asked'[q] = IF q \in {p} THEN None ELSE asked[q]
      BY <1>0, <2>1, ForgottenEffect
    <2>3. /\ systemID' = systemID /\ faults' \in 0..MaxFaults /\ bridges' = bridges
          /\ ports' = [ports EXCEPT ![p] = None] \/ ports' = ports
      BY <1>0, <2>1, TransactionEffect
    <2> QED  BY <1>0, <2>2, <2>3, PortByPort
             DEF TypeOK, EveryPortInABridge, BridgeOf, AddedWhole
  <1> QED  BY <1>1, <1>2, <1>3

\* The port comes with its type, its request and its ids, or does not come at all,
\* also when the run has failed.
LEMMA AddStep ==
    ASSUME IInv, NEW b \in Bridges, NEW p \in Ports, NEW m \in Metadata,
           AddPortWithMetadata(b, p, m)
    PROVE  IInv'
  <1> DEFINE new == [ports EXCEPT ![p] = WithMetadata(b, m)]
  <1>0. TypeOK /\ EveryPortInABridge /\ AddedWhole
    BY DEF IInv
  <1>1. /\ Transaction(b \in bridges /\ ports[p] = None, bridges, new)
        /\ asked' = [asked EXCEPT ![p] = IF ports[p] = None THEN m ELSE @]
    BY DEF AddPortWithMetadata
  <1>2. /\ new \in [Ports -> Port \cup {None}]
        /\ new[p] = WithMetadata(b, m) /\ \A q \in Ports \ {p} : new[q] = ports[q]
    BY <1>0, PortsAdded DEF TypeOK
  <1> HIDE DEF new
  <1>3. /\ asked' \in [Ports -> Metadata \cup {None}]
        /\ asked'[p] = (IF ports[p] = None THEN m ELSE asked[p])
        /\ \A q \in Ports \ {p} : asked'[q] = asked[q]
    BY <1>0, <1>1 DEF TypeOK
  <1>4. /\ systemID' = systemID /\ faults' \in 0..MaxFaults /\ bridges' = bridges
        /\ (b \in bridges /\ ports[p] = None /\ ports' = new) \/ ports' = ports
    BY <1>0, <1>1, TransactionEffect
  <1>5. CASE b \in bridges /\ ports[p] = None /\ ports' = new
    <2>1. ports'[p] = WithMetadata(b, m) /\ asked'[p] = m
      BY <1>2, <1>3, <1>5
    <2>2. \A q \in Ports \ {p} : ports'[q] = ports[q] /\ asked'[q] = asked[q]
      BY <1>2, <1>3, <1>5
    <2> QED  BY <1>0, <1>2, <1>3, <1>4, <1>5, <2>1, <2>2, PortsAdded, PortByPort
             DEF TypeOK, EveryPortInABridge, AddedWhole
  <1>6. CASE ports' = ports
    BY <1>0, <1>3, <1>4, <1>6, PortByPort DEF TypeOK, EveryPortInABridge, AddedWhole
  <1> QED  BY <1>4, <1>5, <1>6

\* A call that reads leaves the database alone.
LEMMA ReadStep ==
    ASSUME IInv, NEW value, Read(value)
    PROVE  IInv'
  <1>1. UNCHANGED <<bridges, ports, systemID, asked>>
    BY DEF Read
  <1>2. faults' \in 0..MaxFaults
    BY BoundAssumption DEF Read, Fault, IInv, TypeOK
  <1> QED  BY <1>1, <1>2 DEF IInv, TypeOK, EveryPortInABridge, AddedWhole

\* Another client adds a port to a bridge that exists, or deletes one.
LEMMA OtherClientStep == ASSUME IInv, OtherClient PROVE IInv'
  <1>0. TypeOK /\ EveryPortInABridge /\ AddedWhole
    BY DEF IInv
  <1>1. PICK p \in Ports :
            /\ \/ \E b \in bridges, ids \in Foreign :
                      ports' = [ports EXCEPT ![p] = [Bare(b) EXCEPT !.portIDs = ids]]
               \/ ports' = [ports EXCEPT ![p] = None]
            /\ Forgotten({p})
    BY DEF OtherClient
  <1>2. UNCHANGED <<bridges, systemID, faults>>
    BY DEF OtherClient
  <1>3. /\ asked' \in [Ports -> Metadata \cup {None}]
        /\ \A q \in Ports : asked'[q] = IF q \in {p} THEN None ELSE asked[q]
    BY <1>0, <1>1, ForgottenEffect
  <1>4. ASSUME NEW b \in bridges, NEW ids \in Foreign
        PROVE  [Bare(b) EXCEPT !.portIDs = ids] \in Port
                 /\ [Bare(b) EXCEPT !.portIDs = ids].bridge = b
    BY <1>0, <1>4, MapsAssumption DEF TypeOK, Bare, Port
  <1>5. /\ ports' \in [Ports -> Port \cup {None}]
        /\ ports'[p] # None => ports'[p].bridge \in bridges
        /\ \A q \in Ports \ {p} : ports'[q] = ports[q]
    <2>1. CASE ports' = [ports EXCEPT ![p] = None]
      BY <1>0, <2>1 DEF TypeOK
    <2>2. ASSUME NEW new \in Port, new.bridge \in bridges,
                 ports' = [ports EXCEPT ![p] = new]
          PROVE  /\ ports' \in [Ports -> Port \cup {None}]
                 /\ ports'[p].bridge \in bridges
                 /\ \A q \in Ports \ {p} : ports'[q] = ports[q]
      BY <1>0, <2>2 DEF TypeOK
    <2> QED  BY <1>1, <1>4, <2>1, <2>2
  <1> QED  BY <1>0, <1>2, <1>3, <1>5, PortByPort
           DEF TypeOK, EveryPortInABridge, AddedWhole

\* Each call, each failing run and each step of another client keeps the invariant.
LEMMA StepIInv == IInv /\ [Next]_vars => IInv'
  <1> SUFFICES ASSUME IInv, [Next]_vars PROVE IInv'
    OBVIOUS
  <1>1. ASSUME NEW b \in Bridges
        PROVE  AddBridgeIfNotExists(b) \/ DeleteBridgeIfExists(b) => IInv'
    BY BridgeStep
  <1>2. ASSUME NEW p \in Ports
        PROVE  /\ DeletePort(p) => IInv'
               /\ \A b \in Bridges : AddPortIfNotExists(b, p) => IInv'
               /\ \A t \in Types : SetPortType(p, t) => IInv'
    BY PortStep
  <1>3. ASSUME NEW b \in Bridges, NEW p \in Ports, NEW m \in Metadata
        PROVE  AddPortWithMetadata(b, p, m) => IInv'
    BY AddStep
  <1>4. ASSUME NEW b \in Bridges PROVE BridgeExists(b) => IInv'
    BY ReadStep DEF BridgeExists
  <1>5. ASSUME NEW p \in Ports
        PROVE  InterfaceToBridge(p) \/ GetInterfaceOfPort(p) => IInv'
    BY ReadStep DEF InterfaceToBridge, GetInterfaceOfPort
  <1>6. ASSUME NEW p \in Ports
        PROVE  GetPortExternalIDs(p) \/ GetInterfaceExternalIDs(p) => IInv'
    BY ReadStep DEF GetPortExternalIDs, GetInterfaceExternalIDs
  <1>7. GetSystemID \/ (\E t \in Types : ListInterfaces(t)) => IInv'
    BY ReadStep DEF GetSystemID, ListInterfaces
  <1>8. CASE OtherClient
    BY <1>8, OtherClientStep
  <1>9. CASE UNCHANGED vars
    BY <1>9 DEF vars, IInv, TypeOK, EveryPortInABridge, AddedWhole
  <1> QED  BY <1>1, <1>2, <1>3, <1>4, <1>5, <1>6, <1>7, <1>8, <1>9 DEF Next

-----------------------------------------------------------------------------
\* The inductive invariant of the database, whatever calls are made, whatever else
\* writes to it and however many runs fail.
THEOREM Inductive == Spec => []IInv
  BY InitIInv, StepIInv, PTL DEF Spec

\* AddPortWithMetadata adds a port whole or not at all: one transaction, so that no
\* failing run leaves a port without its ids.
THEOREM AddsWhole == Spec => []AddedWhole
  BY Inductive, PTL DEF IInv

\* What GetSystemID makes of what is printed: the quotes around an id and the line end
\* go, the id stays as it is.
LEMMA SystemIDRead ==
    ASSUME NEW id \in SystemIDs, ~Contains(id, Quote)
    PROVE  TrimAll(TrimBlanks(Printed(id) \o <<"\n">>), {Quote}) = id
  <1>1. id \in Text /\ Quote \in Symbol /\ Quote \notin Blanks
    BY TextsAssumption, SeqMonotonic DEF Text, Symbol, Quote, Blanks
  <1>2. CASE Len(id) = 1 /\ id[1] \in Plain
    <2>1. Printed(id) = id
      BY <1>2 DEF Printed
    <2>2. id # <<>> /\ id[1] \notin Blanks /\ id[1] \notin {Quote}
      <3>1. id # <<>>
        BY <1>2
      <3> QED  BY <1>2, <3>1, TextsAssumption
    <2>3. TrimBlanks(id \o <<"\n">>) = id
      BY <1>1, <1>2, <2>2, LineTrimmed
    <2>4. TrimAll(id, {Quote}) = SubSeq(id, 1, 1)
      <3>1. DOMAIN id = 1..1
        BY <1>1, <1>2, LenProperties DEF Text
      <3>2. 1 \in DOMAIN id /\ \A i \in DOMAIN id : ~(i < 1 \/ 1 < i)
        BY <3>1
      <3> QED  BY <1>1, <2>2, <3>2, Trimmed
    <2>5. SubSeq(id, 1, 1) = id
      BY <1>1, <1>2, SubSeqFull DEF Text
    <2> QED  BY <2>1, <2>3, <2>4, <2>5
  <1>3. CASE ~(Len(id) = 1 /\ id[1] \in Plain)
    <2> DEFINE t == <<Quote>> \o id \o <<Quote>>
    <2>1. Printed(id) = t
      BY <1>3 DEF Printed
    <2>2. t \in Text /\ t # <<>> /\ t[1] = Quote /\ t[Len(t)] = Quote
      <3>1. <<Quote>> \in Text /\ Len(<<Quote>>) = 1 /\ <<Quote>>[1] = Quote
        BY <1>1, OneSymbol
      <3>2. Len(id) \in Nat
        BY <1>1, LenProperties DEF Text
      <3>3. /\ <<Quote>> \o id \in Text /\ Len(<<Quote>> \o id) = Len(id) + 1
            /\ (<<Quote>> \o id)[1] = Quote
        BY <1>1, <3>1, <3>2, ConcatProperties DEF Text
      <3>4. /\ t \in Text /\ Len(t) = Len(id) + 2
            /\ t[1] = Quote /\ t[Len(id) + 2] = Quote
        BY <3>1, <3>2, <3>3, ConcatProperties DEF Text
      <3> HIDE DEF t
      <3> QED  BY <3>2, <3>4, EmptySeq DEF Text
    <2> HIDE DEF t
    <2>3. TrimBlanks(t \o <<"\n">>) = t
      BY <1>1, <2>2, LineTrimmed
    <2>4. TrimAll(t, {Quote}) = id
      BY <1>1, Unquoted DEF t
    <2> QED  BY <2>1, <2>3, <2>4
  <1> QED  BY <1>2, <1>3

\* GetSystemID answers the system-id of the database, or "" when there is none: its
\* two calls of Trim undo what ovs-vsctl prints around an id.
THEOREM SystemIDReadsBack == Spec => ReadsSystemID
  <1> DEFINE Readable == systemID # None =>
                             ~Contains(systemID, Quote) /\ systemID # <<"[", "]">>
             out == IF systemID = None THEN <<"\n">> ELSE Printed(systemID) \o <<"\n">>
             id == TrimAll(TrimBlanks(out), {Quote})
             answered == IF systemID = None THEN <<>> ELSE systemID
  <1>1. ASSUME IInv, GetSystemID, Readable
        PROVE  answer' \in {ErrorAnswer, SystemIDAnswer(answered)}
    <2>1. systemID \in SystemIDs \cup {None}
      BY <1>1 DEF IInv, TypeOK
    <2>2. id = answered /\ answered # <<"[", "]">>
      <3>1. CASE systemID = None
        <4>1. \A i \in DOMAIN <<"\n">> : <<"\n">>[i] \in Blanks
          <5>1. DOMAIN <<"\n">> = {1} /\ <<"\n">>[1] = "\n"
            OBVIOUS
          <5> QED  BY <5>1 DEF Blanks
        <4>2. TrimBlanks(out) = <<>>
          BY <3>1, <4>1, TrimmedAway DEF TrimBlanks
        <4>3. TrimAll(<<>>, {Quote}) = <<>>
          BY TrimmedAway
        <4> QED  BY <3>1, <4>2, <4>3
      <3>2. CASE systemID # None
        BY <1>1, <2>1, <3>2, SystemIDRead
      <3> QED  BY <3>1, <3>2
    <2>3. Read(SystemIDAnswer(IF id = <<"[", "]">> THEN <<>> ELSE id))
      BY <1>1 DEF GetSystemID
    <2> HIDE DEF id
    <2>4. Read(SystemIDAnswer(answered))
      BY <2>2, <2>3
    <2> QED  BY <2>4 DEF Read
  <1>2. IInv /\ [Next]_vars =>
            [GetSystemID /\ Readable =>
                answer' \in {ErrorAnswer, SystemIDAnswer(answered)}]_vars
    BY <1>1
  <1> QED  BY <1>2, Inductive, PTL DEF Spec, ReadsSystemID

=============================================================================
