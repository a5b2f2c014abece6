--------------------------- MODULE DocumentFields ---------------------------
(***************************************************************************)
(* What makes a JSON value a DID document: the structural checks of        *)
(* DocumentFields::try_from in src/document.rs with the helpers of         *)
(* src/json_tools.rs and the beacons of src/beacon.rs.                     *)
(*                                                                         *)
(* A JSON value is a function from paths to what stands there.  A string   *)
(* is taken for what the code looks for in it: a DID, the placeholder, a   *)
(* Multikey, the type or the address of a beacon, or none of these.        *)
(***************************************************************************)
EXTENDS Multikey

CONSTANTS
    Items       \* bound of the model: the length of the longest array

(* authentication and the three members after it are read alike: one       *)
(* member, "relationship", stands for the four.                            *)
StringArray == {"context", "controller", "relationship"}

Keys == [verificationMethod |-> {"id", "controller", "publicKeyMultibase"},
         service |-> {"id", "type", "serviceEndpoint"}]

ArrayMember == StringArray \cup DOMAIN Keys

Path ==
    {<<"id">>}
        \cup {<<member>> : member \in ArrayMember}
        \cup StringArray \X (1..Items)
        \cup {<<"verificationMethod", i, key>> :
                 i \in 1..Items, key \in Keys.verificationMethod}
        \cup {<<"service", i, key>> : i \in 1..Items, key \in Keys.service}

(* What stands at a path; a missing member reads as null. *)
Null == <<"null">>
NotAString == <<"other">>
Array(length) == <<"array", length>>

(* DID_PLACEHOLDER, and the other strings *)
Placeholder == <<"placeholder">>
Plain == <<"plain">>
Mention(text) == <<"did", text>>
KeyText(text) == <<"multikey", text>>
TypeName(ty) == <<"type", ty>>
Endpoint(address) == <<"bip21", address>>

IsString(leaf) == leaf[1] \notin {"null", "other", "array"}

(* A JSON value with no array longer than the model holds *)
WellFormed(json) ==
    /\ json = [path \in Path |-> json[path]]
    /\ \A member \in ArrayMember :
           json[<<member>>][1] = "array" => json[<<member>>][2] \in 0..Items

(* The JSON value with these members: json!({...}) *)
JsonOf(doc) ==
    [path \in Path |->
        IF path = <<"id">> THEN doc.id
        ELSE IF Len(path) = 1 THEN Array(Len(doc[path[1]]))
        ELSE IF path[2] > Len(doc[path[1]]) THEN Null
        ELSE IF Len(path) = 2 THEN doc[path[1]][path[2]]
        ELSE doc[path[1]][path[2]][path[3]]]

ASSUME ItemsAssumption == Items \in Nat

-----------------------------------------------------------------------------
(* How an address is written, and the Bitcoin networks it is valid on. *)
AddressForms ==
    [base58main |-> {"Bitcoin"}, bc |-> {"Bitcoin"},
     base58test |-> {"Testnet", "Signet", "Regtest"},
     tb |-> {"Testnet", "Signet"}, bcrt |-> {"Regtest"}]

(* AddressExt::from_bip21 *)
EndpointError(leaf, network) ==
    IF leaf[1] # "bip21" THEN "InvalidBip21"
    ELSE IF leaf[2].form \notin DOMAIN AddressForms THEN "AddressParse"
    ELSE IF BitcoinNetwork(network) = "None" THEN "InvalidNetwork"
    ELSE IF BitcoinNetwork(network) \notin AddressForms[leaf[2].form]
        THEN "AddressParse"
    ELSE "None"

(* BeaconType::from_str *)
TypeError(leaf) ==
    IF leaf \in {TypeName(ty) : ty \in {"SingletonBeacon", "MapBeacon", "SMTBeacon"}}
    THEN "None" ELSE "InvalidBeaconType"

KeyError(leaf) ==
    IF leaf[1] = "multikey" THEN MultikeyError(leaf[2]) ELSE "MultibasePrefix"

(* Where the code has a type parameter: a Did must parse, a String does. *)
IdError(kind, leaf) ==
    IF kind = "String" THEN "None"
    ELSE IF leaf[1] = "did" THEN ParseError(leaf[2])
    ELSE IF leaf = Placeholder THEN "Bech32"
    ELSE "InvalidDidFormat"

-----------------------------------------------------------------------------
(* What the ? operator returns of one check after the other. *)
FirstError(errors) ==
    LET failed == {i \in DOMAIN errors : errors[i] # "None"}
    IN  IF failed = {} THEN "None"
        ELSE errors[CHOOSE i \in failed : \A j \in failed : i <= j]

(* string_from_object, then parse() *)
MemberError(leaf, parse) ==
    IF leaf = Null THEN "JsonMissingKey"
    ELSE IF ~IsString(leaf) THEN "UnexpectedJsonType"
    ELSE parse

(* string_from_value, then parse() *)
ItemError(leaf, parse) == IF ~IsString(leaf) THEN "ExpectedJsonStr" ELSE parse

(* vec_from_object: a missing array is an empty one. *)
ArrayError(leaf, items) ==
    IF leaf = Null THEN "None"
    ELSE IF leaf[1] # "array" THEN "UnexpectedJsonType"
    ELSE FirstError([i \in 1..leaf[2] |-> items[i]])

MethodError(json, kind, i) ==
    LET At(key) == json[<<"verificationMethod", i, key>>]
    IN  FirstError(<<MemberError(At("id"), "None"),
                     MemberError(At("controller"), IdError(kind, At("controller"))),
                     MemberError(At("publicKeyMultibase"),
                                 KeyError(At("publicKeyMultibase")))>>)

ServiceError(json, network, i) ==
    LET At(key) == json[<<"service", i, key>>]
    IN  FirstError(<<MemberError(At("id"), "None"),
                     MemberError(At("type"), TypeError(At("type"))),
                     MemberError(At("serviceEndpoint"),
                                 EndpointError(At("serviceEndpoint"), network))>>)

(* The network of the id, if it is a Did, or the one handed in. *)
FieldsNetwork(json, kind, network) ==
    IF kind = "Did" THEN ParsedNetwork(json[<<"id">>][2]) ELSE network

(* DocumentFields::<kind>::try_from((json, network)): its first error *)
FieldsError(json, kind, network) ==
    LET id == json[<<"id">>]
        idError == MemberError(id, IdError(kind, id))
    IN  IF idError # "None" THEN idError
        ELSE IF json[<<"context">>] = Null THEN "JsonMissingKey"
        ELSE FirstError(
            <<ArrayError(json[<<"context">>],
                  [i \in 1..Items |-> ItemError(json[<<"context", i>>], "None")]),
              ArrayError(json[<<"controller">>],
                  [i \in 1..Items |->
                      ItemError(json[<<"controller", i>>],
                                IdError(kind, json[<<"controller", i>>]))]),
              ArrayError(json[<<"verificationMethod">>],
                  [i \in 1..Items |-> MethodError(json, kind, i)]),
              ArrayError(json[<<"relationship">>],
                  [i \in 1..Items |->
                      ItemError(json[<<"relationship", i>>], "None")]),
              ArrayError(json[<<"service">>],
                  [i \in 1..Items |->
                      ServiceError(json,
                                   FieldsNetwork(json, kind, network), i)])>>)
=============================================================================
