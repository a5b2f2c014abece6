----------------------------- MODULE InitialDoc -----------------------------
(***************************************************************************)
(* Where the document a resolution starts from comes from, src/document.rs:*)
(* a key-based DID generates it, an external one is created from an        *)
(* intermediate document with placeholders for the DID, and is read back   *)
(* from the sidecar data, whose document must hash to what the DID says.   *)
(* A hash is the hashed document under a tag.                              *)
(***************************************************************************)
EXTENDS DocumentFields

CONSTANTS
    Draft,          \* the JSON values offered as intermediate documents
    Networks,       \* the networks callers pass
    Nothing,        \* no value
    OtherText,      \* a DID that documents may mention besides their own
    KeyComponents,  \* the components of the key-based DIDs callers ask for
    Altered         \* the places where a sidecar document may differ

-----------------------------------------------------------------------------
Hash(json) == <<"hash", json>>

(* Slip: the strings in arrays are left alone. *)
FindAndReplaceNoArrays(json, from, to) ==
    [json EXCEPT ![<<"id">>] = IF @ = from THEN to ELSE @]

(* Wherever a string of the document contains the text, and nowhere else *)
FindAndReplace(json, from, to) ==
    [path \in Path |-> IF json[path] = from THEN to ELSE json[path]]

Id(json) == json[<<"id">>]

(* DocumentFields<String>: any id will do, the caller says which network. *)
IntermediateError(json, network) == FieldsError(json, "String", network)

(* DocumentFields<Did>: the network is that of the id. *)
InitialError(json) == FieldsError(json, "Did", Nothing)

(* IntermediateDocument::into_initial, before it unwraps, and from_initial *)
IntoInitial(json, did_text) ==
    FindAndReplace(json, Placeholder, Mention(did_text))

(* Slip: the DID is not taken out again. *)
FromInitialUntouched(json) == json

FromInitial(json) == FindAndReplace(json, Id(json), Placeholder)

(* Slip: any sidecar document will do. *)
SidecarUnchecked(json, hash) == TRUE

(* InitialDocument::sidecar_initial_validation *)
SidecarValid(json, hash) == Hash(FromInitial(json)) = hash

(* The components of the DID from_external_intermediate makes *)
ExternalComponents(json, network) ==
    [version |-> 1, network |-> network,
     id_type |-> [hrp |-> "x", genesis |-> Hash(json)]]

(* A hash is 32 bytes, and no document holds a DID made of its own hash. *)
ASSUME DraftAssumption ==
    /\ Networks \subseteq Network
    /\ \A json \in Draft :
           /\ WellFormed(json)
           /\ Hash(json) \in Genesis
           /\ GenesisLength[Hash(json)] = Sha256HashLen
           /\ \A path \in Path, network \in Networks :
                  json[path] # Mention(EncodeDid(ExternalComponents(json, network)))

ASSUME KeyAssumption ==
    \A components \in KeyComponents :
        components \in DidComponents /\ components.id_type.hrp = "k"

(* The document of a key-based DID has three beacons. *)
ASSUME RoomAssumption == Items >= 3

(***************************************************************************)
(* generate_beacons: the key's P2PKH, P2WPKH and P2TR addresses.           *)
(***************************************************************************)
LegacyForm(bitcoin_network) ==
    IF bitcoin_network = "Bitcoin" THEN "base58main" ELSE "base58test"

(* Slip: regtest is taken for a network like the other test networks. *)
SegwitFormOfTests(bitcoin_network) ==
    IF bitcoin_network = "Bitcoin" THEN "bc" ELSE "tb"

SegwitForm(bitcoin_network) ==
    CASE bitcoin_network = "Bitcoin" -> "bc"
      [] bitcoin_network \in {"Testnet", "Signet"} -> "tb"
      [] bitcoin_network = "Regtest" -> "bcrt"

GenerateBeacons(did_of) ==
    LET network == BitcoinNetwork(did_of.components.network)
        key     == PublicKeyUnchecked(did_of)
    IN  <<[form |-> LegacyForm(network), script |-> <<"p2pkh", key>>],
          [form |-> SegwitForm(network), script |-> <<"p2wpkh", key>>],
          [form |-> SegwitForm(network), script |-> <<"p2tr", key>>]>>

(* The members of the generated document *)
GeneratedMembers(did_of) ==
    LET text == Mention(did_of.encoded)
        beacons == GenerateBeacons(did_of)
    IN  [id |-> text,
         context |-> <<Plain, Plain>>,
         controller |-> <<text>>,
         verificationMethod |->
             <<[id |-> text, controller |-> text,
                publicKeyMultibase |->
                    KeyText(ToMultikey(PublicKeyUnchecked(did_of)))]>>,
         relationship |-> <<text>>,
         service |->
             [i \in DOMAIN beacons |->
                 [id |-> text, type |-> TypeName("SingletonBeacon"),
                  serviceEndpoint |-> Endpoint(beacons[i])]]]

DeterministicallyGenerate(did_of) == JsonOf(GeneratedMembers(did_of))

-----------------------------------------------------------------------------
VARIABLES
    draft,      \* the IntermediateDocument in hand, with its network
    created,    \* what from_external_intermediate last made of it
    read        \* the last call of InitialDocument::from_did

docVars == <<draft, created, read>>

NoDraft == [json |-> Nothing, network |-> Nothing]
NoCreated == [verdict |-> "none", did |-> Nothing, json |-> Nothing,
              from |-> NoDraft, network |-> Nothing]
NoRead == [verdict |-> "none", did |-> Nothing, sidecar |-> Nothing, json |-> Nothing]

DocInit ==
    /\ draft = NoDraft
    /\ created = NoCreated
    /\ read = NoRead

(* IntermediateDocument::from_json_value, where it succeeds *)
ParseIntermediate(json, network) ==
    /\ draft = NoDraft
    /\ IntermediateError(json, network) = "None"
    /\ draft' = [json |-> json, network |-> network]
    /\ UNCHANGED <<created, read>>

(* InitialDocument::from_external_intermediate *)
FromExternalIntermediate(network) ==
    /\ draft # NoDraft
    /\ created = NoCreated
    /\ LET components == ExternalComponents(draft.json, network)
           text == EncodeDid(components)
           json == IntoInitial(draft.json, text)
       IN  created' =
               [verdict |-> IF InitialError(json) = "None" THEN "None" ELSE "Panic",
                did |-> DidFrom(components),
                json |-> json, from |-> draft, network |-> network]
    /\ UNCHANGED <<draft, read>>

(* The first error or panic of from_did and what it calls, or "None" *)
ReadVerdict(did_of, sidecar) ==
    IF did_of.components.id_type.hrp = "k"
    THEN IF BitcoinNetwork(did_of.components.network) = "None" THEN "InvalidNetwork"
         ELSE IF PublicKeyUnchecked(did_of) = NotAPoint THEN "Panic"
         ELSE InitialError(DeterministicallyGenerate(did_of))
    ELSE IF sidecar = Nothing THEN "Panic"
         ELSE IF ~SidecarValid(sidecar, did_of.components.id_type.genesis)
             THEN "InvalidDid"
         ELSE "None"

(* InitialDocument::from_did, called by Document::read *)
FromDid(did_of, sidecar) ==
    LET verdict == ReadVerdict(did_of, sidecar)
    IN  /\ read' =
               [verdict |-> verdict, did |-> did_of, sidecar |-> sidecar,
                json |-> IF verdict # "None" THEN Nothing
                         ELSE IF did_of.components.id_type.hrp = "k"
                         THEN DeterministicallyGenerate(did_of) ELSE sidecar]
        /\ UNCHANGED <<draft, created>>

(***************************************************************************)
(* The documents a reader may be handed for the DID just created: the one  *)
(* made with it, without its beacons or under another DID, the strings at  *)
(* the altered places put in or replaced in every way, if they parse as    *)
(* initial documents.                                                      *)
(***************************************************************************)
Sidecars ==
    LET json     == created.json
        bare     == [path \in Path |->
                        IF path[1] = "service" THEN Null ELSE json[path]]
        renamed  == FindAndReplace(json, Mention(created.did.encoded),
                                   Mention(OtherText))
        places   == {path \in Altered : IsString(json[path])}
        names    == {Placeholder, Plain, Mention(created.did.encoded),
                     Mention(OtherText)}
        With(original, strings) ==
            [path \in Path |-> IF path \in places THEN strings[path]
                                                  ELSE original[path]]
        sidecars == {With(original, strings) :
                        original \in {json, bare, renamed},
                        strings \in [places -> names]}
    IN  {sidecar \in sidecars : InitialError(sidecar) = "None"}

ReadCreated ==
    /\ created.verdict = "None"
    /\ read = NoRead
    /\ \E sidecar \in Sidecars \cup {Nothing} : FromDid(created.did, sidecar)

(* Document::from_did_components, and read of a text parsed beforehand *)
ReadKey ==
    /\ draft = NoDraft
    /\ \E components \in KeyComponents :
           \/ FromDid(DidFrom(components), Nothing)
           \/ FromDid(DidOf(EncodeDid(components)), Nothing)

DocNext ==
    \/ \E json \in Draft, network \in Networks : ParseIntermediate(json, network)
    \/ \E network \in Networks : FromExternalIntermediate(network)
    \/ ReadCreated
    \/ ReadKey

DocSpec == DocInit /\ [][DocNext]_docVars

-----------------------------------------------------------------------------
FromPlaceholder == Id(created.from.json) = Placeholder

(* An external DID made from a draft that calls itself by the placeholder  *)
(* can be read with the document that came with it (src/document.rs:343,   *)
(* 405 and 428): what into_initial replaced, from_initial puts back,       *)
(* whatever other DIDs the document mentions, and the document keeps the   *)
(* DID as its id.                                                          *)
CreatedCanBeRead ==
    /\ created.verdict = "None"
    /\ FromPlaceholder
    /\ read.did = created.did
    /\ read.sidecar # Nothing
    /\ read.sidecar = created.json
    => /\ read.verdict = "None"
       /\ Id(read.json) = Mention(created.did.encoded)

(* A document accepted for an external DID under that very id is the one   *)
(* that was created with it, but for placeholders somebody left in it      *)
(* (src/document.rs:436): no other document passes for it.                 *)
AcceptedIsCreated ==
    /\ read.verdict = "None"
    /\ created.verdict = "None"
    /\ read.did = created.did
    /\ Id(read.json) = Mention(created.did.encoded)
    => IntoInitial(read.json, created.did.encoded) = created.json

(* A DID or the placeholder that is going to be replaced by one *)
NamesADid(leaf) == leaf = Placeholder \/ IdError("Did", leaf) = "None"

DidPaths ==
    {<<"id">>} \cup {<<"controller", i>> : i \in 1..Items}
        \cup {<<"verificationMethod", i, "controller">> : i \in 1..Items}

(* into_initial unwraps the reparse of its own output (src/document.rs:549)*)
(* on the network of the new DID: it cannot fail for a draft that has the  *)
(* placeholder or a DID wherever a DID is asked for and was parsed for the *)
(* same network, even where the four bits of the text cannot hold it.      *)
OwnNetworkNeverPanics ==
    /\ created.verdict = "Panic"
    /\ FromPlaceholder
    /\ \A path \in DidPaths :
           IsString(created.from.json[path]) => NamesADid(created.from.json[path])
    => created.network # created.from.network

(* The document generated for a key-based DID (src/document.rs:378) parses *)
(* whenever its network and its key are usable: its beacons are addresses  *)
(* the parser takes for that network, and the Multikey in it reads back as *)
(* the key of the DID, with which updates have to be signed.               *)
GeneratedConforms ==
    /\ read.verdict # "none"
    /\ read.did.components.id_type.hrp = "k"
    /\ BitcoinNetwork(read.did.components.network) # "None"
    /\ PublicKeyUnchecked(read.did) # NotAPoint
    => /\ read.verdict = "None"
       /\ LET key == read.json[<<"verificationMethod", 1, "publicKeyMultibase">>]
          IN  FromMultikey(key[2]) = PublicKeyUnchecked(read.did)

(* The test of src/document.rs:686 asserts of a document read for a DID    *)
(* that its id is that DID.                                                *)
ReadIdIsRequested ==
    read.verdict = "None" => Id(read.json) = Mention(read.did.encoded)
=============================================================================
