----------------------------- MODULE OVSClient -----------------------------
(***************************************************************************)
(* The OVS client (src/dpf-utils/internal/utils/ovsclient): each call runs *)
(* ovs-vsctl once, which commits one transaction on the database of Open   *)
(* vSwitch, and reads what it prints.  Other clients write to the same     *)
(* database; a run of ovs-vsctl may fail before or after it has committed. *)
(***************************************************************************)
EXTENDS Integers, OVSText

CONSTANTS
    Bridges, Ports, Types,
    QuotedNames,  \* the ports whose names ovs-vsctl prints in quotes
    Maps,       \* external ids that callers give a port or an interface
    Foreign,    \* those that other clients give a port
    KeyOrder,   \* their keys, in the order of ovs-vsctl
    SystemIDs,  \* texts the system-id of this host may have
    None,       \* no bridge, port, metadata or value
    MaxFaults   \* bound on failing runs

ASSUME BoundAssumption == MaxFaults \in Nat
ASSUME NamesAssumption == QuotedNames \subseteq Ports
ASSUME MapsAssumption == <<>> \in Maps
\* Plain words hold neither a blank nor a quote; ids are sequences of symbols.
ASSUME TextsAssumption ==
    /\ Plain \subseteq STRING \ (Blanks \cup {Quote})
    /\ SystemIDs \subseteq Seq(STRING)

VARIABLES
    bridges,   \* the bridges of the database
    ports,     \* each port with its interface: bridge, type, requested ofport, ids
    systemID,  \* external_ids:system-id of Open_vSwitch
    answer,    \* what the last call has returned
    asked,     \* history: what AddPortWithMetadata was given for the port
    faults

vars == <<bridges, ports, systemID, answer, asked, faults>>

\* A port that is added without metadata.
Bare(b) ==
    [bridge |-> b, type |-> None, request |-> None, portIDs |-> <<>>, ifaceIDs |-> <<>>]

Metadata == [type : Types, request : {1}, portIDs : Maps, ifaceIDs : Maps]

WithMetadata(b, m) ==
    [Bare(b) EXCEPT !.type = m.type, !.request = m.request,
                    !.portIDs = m.portIDs, !.ifaceIDs = m.ifaceIDs]

Ok == [kind |-> "ok"]

Init ==
    /\ bridges = {} /\ ports = [p \in Ports |-> None]
    /\ systemID \in SystemIDs \cup {None}
    /\ answer = Ok
    /\ asked = [p \in Ports |-> None]
    /\ faults = 0

-----------------------------------------------------------------------------
Fault == faults < MaxFaults /\ faults' = faults + 1

\* runOVSVsctl with one transaction: refused as a whole when one of its commands
\* is, and otherwise committed as a whole.
Transaction(ok, newBridges, newPorts) ==
    /\ UNCHANGED systemID
    /\ \/ /\ ok /\ bridges' = newBridges /\ ports' = newPorts
          /\ answer' = Ok /\ UNCHANGED faults
       \/ ~ok /\ answer' = ErrorAnswer /\ UNCHANGED <<bridges, ports, faults>>
       \/ /\ Fault /\ answer' = ErrorAnswer
          /\ \/ ok /\ bridges' = newBridges /\ ports' = newPorts
             \/ UNCHANGED <<bridges, ports>>

Forgotten(P) == asked' = [p \in Ports |-> IF p \in P THEN None ELSE asked[p]]
BridgeOf(p) == IF ports[p] = None THEN None ELSE ports[p].bridge
PortsOf(b) == {p \in Ports : BridgeOf(p) = b}

AddBridgeIfNotExists(b) ==
    Transaction(TRUE, bridges \cup {b}, ports) /\ UNCHANGED asked

\* The ports of a bridge go with it.
DeleteBridgeIfExists(b) ==
    /\ Transaction(TRUE, bridges \ {b},
                   [p \in Ports |-> IF p \in PortsOf(b) THEN None ELSE ports[p]])
    /\ Forgotten(PortsOf(b))

\* --may-exist: a port of another bridge is refused.
AddPortIfNotExists(b, p) ==
    /\ Transaction(b \in bridges /\ BridgeOf(p) \in {b, None}, bridges,
                   IF ports[p] = None THEN [ports EXCEPT ![p] = Bare(b)] ELSE ports)
    /\ Forgotten(IF ports[p] = None THEN {p} ELSE {})

SetPortType(p, t) ==
    /\ Transaction(ports[p] # None, bridges,
                   IF ports[p] = None THEN ports ELSE [ports EXCEPT ![p].type = t])
    /\ UNCHANGED asked

DeletePort(p) ==
    /\ Transaction(ports[p] # None, bridges, [ports EXCEPT ![p] = None])
    /\ Forgotten({p})

\* A mutated form for the checks: the port is added by a run of its own.
AddPortWithMetadata_TwoRuns(b, p, m) ==
    /\ UNCHANGED <<bridges, systemID>>
    /\ asked' = [asked EXCEPT ![p] = IF ports[p] = None THEN m ELSE @]
    /\ IF b \in bridges /\ ports[p] = None
       THEN \/ /\ ports' = [ports EXCEPT ![p] = WithMetadata(b, m)]
               /\ answer' = Ok /\ UNCHANGED faults
            \/ /\ ports' \in {ports, [ports EXCEPT ![p] = Bare(b)]}
               /\ answer' = ErrorAnswer /\ Fault
       ELSE answer' = ErrorAnswer /\ UNCHANGED <<ports, faults>>

\* add-port and the sets of type, ofport_request and external ids, in one transaction; a
\* port that exists is refused.
AddPortWithMetadata(b, p, m) ==
    /\ Transaction(b \in bridges /\ ports[p] = None, bridges,
                   [ports EXCEPT ![p] = WithMetadata(b, m)])
    /\ asked' = [asked EXCEPT ![p] = IF ports[p] = None THEN m ELSE @]

-----------------------------------------------------------------------------
(***************************************************************************)
(* Calls that read: the answer of a run that succeeds, or an error.        *)
(***************************************************************************)
Read(value) ==
    /\ UNCHANGED <<bridges, ports, systemID, asked>>
    /\ \/ answer' = value /\ UNCHANGED faults
       \/ Fault /\ answer' = ErrorAnswer

\* br-exists ends with 2 for a bridge that is not there. BridgeExists looks for a
\* CodeExitError, and the commands of k8s.io/utils/exec return an ExitErrorWrapper:
\* a bridge that is not there is an error like any other.
BridgeExists(b) ==
    Read(IF b \in bridges THEN [kind |-> "exists", exists |-> TRUE] ELSE ErrorAnswer)

InterfaceToBridge(p) ==
    Read(IF ports[p] = None THEN ErrorAnswer
         ELSE [kind |-> "bridge", bridge |-> ports[p].bridge])

\* ovs-vswitchd chooses the number: -1 for an interface it cannot open, and none
\* yet ("[]", which is no number) for one it has not seen.
GetInterfaceOfPort(p) ==
    \/ Read(ErrorAnswer)
    \/ /\ ports[p] # None
       /\ \E n \in {-1, 1} : Read([kind |-> "ofport", ofport |-> n])

GetPortExternalIDs(p) ==
    Read(IF ports[p] = None THEN ErrorAnswer
         ELSE GetExternalIDsAsMap(PrintedMap(ports[p].portIDs, KeyOrder)))

GetInterfaceExternalIDs(p) ==
    Read(IF ports[p] = None THEN ErrorAnswer
         ELSE GetExternalIDsAsMap(PrintedMap(ports[p].ifaceIDs, KeyOrder)))

\* The name of a port as ovs-vsctl prints it.
Shown(p) == IF p \in QuotedNames THEN <<Quote, p, Quote>> ELSE <<p>>

\* The blanks around a name are cut off, the quotes are not.
ListInterfaces(t) ==
    LET found == {p \in Ports : ports[p] # None /\ ports[p].type = t}
    IN  Read([kind |-> "names", names |-> {Shown(p) : p \in found}])

SystemIDAnswer(id) == [kind |-> "systemID", systemID |-> id]

\* A mutated form for the checks: the quotes are cut off before the line end.
GetSystemID_QuotesFirst ==
    LET out == IF systemID = None THEN <<"\n">> ELSE Printed(systemID) \o <<"\n">>
        id == TrimBlanks(TrimAll(out, {Quote}))
    IN  Read(SystemIDAnswer(IF id = <<"[", "]">> THEN <<>> ELSE id))

\* --if-exists: an empty line when there is none.
GetSystemID ==
    LET out == IF systemID = None THEN <<"\n">> ELSE Printed(systemID) \o <<"\n">>
        id == TrimAll(TrimBlanks(out), {Quote})
    IN  Read(SystemIDAnswer(IF id = <<"[", "]">> THEN <<>> ELSE id))

-----------------------------------------------------------------------------
\* Another client adds or deletes a port; what was asked of it is void.
OtherClient ==
    /\ \E p \in Ports :
           /\ \/ \E b \in bridges, ids \in Foreign :
                     ports' = [ports EXCEPT ![p] = [Bare(b) EXCEPT !.portIDs = ids]]
              \/ ports' = [ports EXCEPT ![p] = None]
           /\ Forgotten({p})
    /\ UNCHANGED <<bridges, systemID, answer, faults>>

Next ==
    \/ \E b \in Bridges :
           \/ AddBridgeIfNotExists(b) \/ DeleteBridgeIfExists(b) \/ BridgeExists(b)
           \/ \E p \in Ports :
                  \/ AddPortIfNotExists(b, p)
                  \/ \E m \in Metadata : AddPortWithMetadata(b, p, m)
    \/ \E p \in Ports :
           \/ DeletePort(p) \/ InterfaceToBridge(p) \/ GetInterfaceOfPort(p)
           \/ GetPortExternalIDs(p) \/ GetInterfaceExternalIDs(p)
           \/ \E t \in Types : SetPortType(p, t)
    \/ \E t \in Types : ListInterfaces(t)
    \/ GetSystemID \/ OtherClient

Spec == Init /\ [][Next]_vars

-----------------------------------------------------------------------------
\* A port that AddPortWithMetadata was asked to add is there with all it was given
\* or is not there, also when the call has returned an error.
AddedWhole ==
    \A p \in Ports : ports[p] # None /\ asked[p] # None =>
        /\ ports[p].request = asked[p].request
        /\ ports[p].portIDs = asked[p].portIDs
        /\ ports[p].ifaceIDs = asked[p].ifaceIDs

\* The inductive invariant: what the database may hold, each port in a bridge that
\* exists, and what AddPortWithMetadata has left.
Port == [bridge : Bridges, type : Types \cup {None}, request : {1, None},
         portIDs : Maps \cup Foreign, ifaceIDs : Maps]

TypeOK ==
    /\ bridges \subseteq Bridges
    /\ ports \in [Ports -> Port \cup {None}]
    /\ systemID \in SystemIDs \cup {None}
    /\ asked \in [Ports -> Metadata \cup {None}]
    /\ faults \in 0..MaxFaults

EveryPortInABridge == \A p \in Ports : ports[p] # None => ports[p].bridge \in bridges

IInv == TypeOK /\ EveryPortInABridge /\ AddedWhole

\* GetSystemID answers the system-id of the database, with or without the quotes that
\* ovs-vsctl prints, and "" when there is none; unless the id holds a quote or is "[]".
ReadsSystemID ==
    [][GetSystemID /\ (systemID # None => /\ ~Contains(systemID, Quote)
                                         /\ systemID # <<"[", "]">>) =>
          answer' \in {ErrorAnswer,
                      SystemIDAnswer(IF systemID = None THEN <<>> ELSE systemID)}]_vars

As(ids) == IDs([k \in {<<key>> : key \in DOMAIN ids} |-> Printed(ids[k[1]])])
Has(ids, c) == \E k \in DOMAIN ids : Contains(ids[k], c)
HasBoth(ids) == Has(ids, "=") /\ Has(ids, ", ")

\* What the readers of external ids answer: the ids as they are printed; an error when
\* the run has failed or a value holds a "="; and no ids at all, but the end of the
\* process, when a value is split at a comma before a blank.
AnswerTo(ids) ==
    IF faults' # faults THEN ErrorAnswer
    ELSE IF Has(ids, ", ") THEN Panic
    ELSE IF Has(ids, "=") THEN ErrorAnswer ELSE As(ids)

\* External ids are read back as they were written, up to the quotes of ovs-vsctl, or
\* not at all: never as other ids, as long as no port has both separators in them.
ReadsWhatIsWritten ==
    [][\A p \in Ports : ports[p] # None =>
          /\ GetPortExternalIDs(p) /\ ~HasBoth(ports[p].portIDs) =>
                 answer' = AnswerTo(ports[p].portIDs)
          /\ GetInterfaceExternalIDs(p) /\ ~HasBoth(ports[p].ifaceIDs) =>
                 answer' = AnswerTo(ports[p].ifaceIDs)]_vars

\* "GetPortExternalIDs returns the external_ids of an OVS port".
ReturnsExternalIDs ==
    [][\A p \in Ports : ports[p] # None /\ GetPortExternalIDs(p) =>
          answer' = As(ports[p].portIDs) \/ answer' = ErrorAnswer]_vars

=============================================================================
