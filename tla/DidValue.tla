------------------------------ MODULE DidValue ------------------------------
(***************************************************************************)
(* The Did of src/identifier.rs, which holds the text and the components   *)
(* of an identifier side by side, and the ways to come by one: from its    *)
(* text, from its components and from the text that a root capability of   *)
(* src/zcap.rs holds, by which an update names its DID.                    *)
(***************************************************************************)
EXTENDS Identifier

VARIABLES
    did,       \* the Did in hand: its text and its components
    origin     \* "none", "parsed" or "components", or why parsing failed

didVars == <<did, origin>>

NoDid == [encoded |-> <<>>, components |-> <<>>]

IdentifierInit == did = NoDid /\ origin = "none"

(* Did::from_str *)
FromStr(text) ==
    IF ParseError(text) = "None"
    THEN /\ did' = DidOf(text)
         /\ origin' = "parsed"
    ELSE /\ did' = NoDid
         /\ origin' = ParseError(text)

(* Did::from(DidComponents) *)
FromComponents(components) ==
    /\ did' = DidFrom(components)
    /\ origin' = "components"

(* dereference_root_capability: prefix tells whether "urn:zcap:root:" was  *)
(* found and what follows it, decoded, is UTF-8; the rest is parsed.       *)
DereferenceRootCapability(prefix, text) ==
    IF prefix /\ ParseError(text) = "None"
    THEN /\ did' = DidOf(text)
         /\ origin' = "parsed"
    ELSE /\ did' = NoDid
         /\ origin' = "Zcap"

IdentifierNext ==
    /\ origin = "none"
    /\ \/ \E text \in DidText : FromStr(text)
       \/ \E components \in DidComponents : FromComponents(components)
       \/ \E prefix \in BOOLEAN, text \in DidText :
              DereferenceRootCapability(prefix, text)

IdentifierSpec == IdentifierInit /\ [][IdentifierNext]_didVars

HasDid == origin \in {"parsed", "components"}

(* A Did says the same twice: reading its text back gives its components   *)
(* (src/identifier.rs:121 and 383), for every version, network and genesis *)
(* the text has room for.                                                  *)
TextAndComponentsAgree ==
    HasDid /\ Encodable(did.components.network) =>
        /\ ParseError(did.encoded) = "None"
        /\ ParsedComponents(did.encoded) = did.components

(* Two texts never name the same DID, up to the letter case and checksum   *)
(* the bech32 crate may let through: what was parsed is written back as    *)
(* the text it was parsed from, so that Dids that name the same thing are  *)
(* equal where the code compares them with their texts                     *)
(* (src/document.rs:449).                                                  *)
OneTextPerDid ==
    origin = "parsed" => EncodeDid(did.components) = did.encoded

(* src/identifier.rs:337 says DidComponents::new creates components "with  *)
(* validation": the text made of them would read back as them.             *)
ComponentsValidated ==
    origin = "components" => ParsedComponents(did.encoded) = did.components
=============================================================================
