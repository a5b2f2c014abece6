---------------------------- MODULE MCInitialDoc ----------------------------
(***************************************************************************)
(* Drafts that mention the placeholder, another DID or neither where a DID *)
(* can stand, drafts with beacons on main or test networks and drafts with *)
(* one member missing or wrong, on networks with and without a Bitcoin     *)
(* network and one the text of a DID has no room for.                      *)
(***************************************************************************)
EXTENDS InitialDoc

LOCAL KeyComponentsOf(genesis, network) ==
    [version |-> 1, network |-> network,
     id_type |-> [hrp |-> "k", genesis |-> genesis]]

MCItems == 3
MCPoint == {"p1", "p2"}
MCCompressed == [point \in MCPoint |-> <<"key", point>>]

MCNetworks ==
    {<<"Mainnet">>, <<"Signet">>, <<"Regtest">>, <<"TestnetV4">>,
     <<"Custom", 6>>, <<"Custom", 18>>}

MCKeyComponents ==
    {KeyComponentsOf(<<"key", point>>, network) :
        point \in MCPoint,
        network \in MCNetworks \cup {<<"TestnetV3">>, <<"Mutinynet">>}}
    \cup {KeyComponentsOf(<<"key", "none">>, <<"Mainnet">>)}

MCOtherText == EncodeDid(KeyComponentsOf(<<"key", "p1">>, <<"Regtest">>))

-----------------------------------------------------------------------------
LOCAL Names == {Placeholder, Plain, Mention(MCOtherText)}

LOCAL Service(form) ==
    [id |-> Placeholder, type |-> TypeName("SingletonBeacon"),
     serviceEndpoint |-> Endpoint([form |-> form, script |-> <<"script">>])]

LOCAL DraftOf(id, controller, method, owner, key, services) ==
    JsonOf([id |-> id, context |-> <<Plain>>, controller |-> <<controller>>,
            verificationMethod |->
                <<[id |-> method, controller |-> owner,
                   publicKeyMultibase |-> KeyText(key)]>>,
            relationship |-> <<method>>, service |-> services])

LOCAL Plainly(services) ==
    DraftOf(Placeholder, Placeholder, Placeholder, Placeholder, ToMultikey("p2"),
            services)

LOCAL Base == Plainly(<<Service("base58test")>>)

LOCAL Mentioning ==
    {DraftOf(id, controller, method, owner, ToMultikey("p2"),
             <<Service("base58test")>>) :
        id \in Names, controller \in Names, method \in Names, owner \in Names}

LOCAL WithBeacons ==
    {Plainly(services) :
        services \in {<<>>, <<Service("bc")>>, <<Service("base58main")>>,
                      <<Service("base58test"), Service("bcrt")>>, <<Service("tb")>>,
                      <<Service("no address")>>}}

(* A key written uncompressed, and texts that are no keys *)
LOCAL WithKeys ==
    {[Base EXCEPT ![<<"verificationMethod", 1, "publicKeyMultibase">>] = KeyText(key)] :
        key \in {[ToMultikey("p2") EXCEPT !.data[2] = <<"long", "p2">>],
                 [ToMultikey("p2") EXCEPT !.data[2] = <<"key", "none">>],
                 [ToMultikey("p2") EXCEPT !.data[1] = <<237, 1>>],
                 [ToMultikey("p2") EXCEPT !.data = <<>>],
                 [ToMultikey("p2") EXCEPT !.base58 = FALSE],
                 [ToMultikey("p2") EXCEPT !.multibase = "other"]}}

LOCAL Faulty ==
    {[Base EXCEPT ![path] = leaf] :
        path \in {path \in Path : Base[path] # Null},
        leaf \in {Null, NotAString, Plain}}

MCDraft == Mentioning \cup WithBeacons \cup WithKeys \cup Faulty

MCAltered ==
    {<<"id">>, <<"controller", 1>>, <<"verificationMethod", 1, "id">>,
     <<"verificationMethod", 1, "controller">>}

-----------------------------------------------------------------------------
MCGenesis ==
    {<<"key", point>> : point \in MCPoint \cup {"none"}}
        \cup {<<"long", point>> : point \in MCPoint}
        \cup {Hash(json) : json \in MCDraft}

MCGenesisLength ==
    [genesis \in MCGenesis |->
        CASE genesis[1] = "key" -> 33
          [] genesis[1] = "long" -> 65
          [] genesis[1] = "hash" -> 32]

MCPointOf ==
    [genesis \in MCGenesis |->
        IF genesis[1] # "hash" /\ genesis[2] \in MCPoint THEN genesis[2] ELSE NotAPoint]
=============================================================================
