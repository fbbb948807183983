---------------------------- MODULE MCOVSClient ----------------------------
(***************************************************************************)
(* External ids for OVSClient: none, a plain and a quoted value, and       *)
(* values with the symbols of the format in them.                          *)
(***************************************************************************)
EXTENDS OVSClient

MapsMC ==
    {<<>>,
     "dpf-id" :> <<"ns/pod">> @@ "iface-id" :> <<"w">>,
     "dpf-id" :> <<"w", "=", "w">>,
     "iface-id" :> <<"w">> @@ "dpf-id" :> <<"w", ", ", "w">>,
     "dpf-id" :> <<"w", ", ", "w", "=", "w">>}

\* ovs-vsctl takes no empty value, and shows one that is in the database.
ForeignMC == {<<>>, "dpf-id" :> <<"ns/pod">> @@ "iface-id" :> <<>>}

KeyOrderMC == <<"dpf-id", "iface-id">>

SystemIDsMC == {<<"w">>, <<" ", "w">>}

=============================================================================
