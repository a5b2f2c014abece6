---------------------------- MODULE DidDocument ----------------------------
(***************************************************************************)
(* DID documents, the signed updates that replace them and the application *)
(* of one update to one document: src/document.rs, src/update.rs,          *)
(* src/cryptosuite.rs, src/zcap.rs and src/zcap/proof.rs.                  *)
(*                                                                         *)
(* A JSON value is a member of Json; that of a document matters only       *)
(* through Fields (what DocumentFields::try_from reads out of it), through *)
(* Patched (what the json_patch crate makes of it) and through its hash.   *)
(* SHA-256 is taken to be collision free, and says nothing of what the     *)
(* hashed JSON stands for: one JSON value may at the same time be that of  *)
(* a document and of an update without its proof, since both parsers       *)
(* ignore members they do not know.                                        *)
(***************************************************************************)
EXTENDS Naturals, Sequences, FiniteSets

CONSTANTS
    Json,           \* the JSON values of documents and of updates
    Fields,         \* conformant document -> its parsed fields
    Did,            \* well-formed did:btc1 identifiers
    NotADid,        \* a capability that dereferences to no DID
    Method,         \* verification method ids
    Key,            \* secp256k1 public keys, by the x coordinate BIP-340 uses
    NoKey,          \* marks a method id the document does not list
    Address,        \* Bitcoin addresses of beacons
    Patch,          \* JSON patches
    Patched,        \* patch -> (JSON value -> JSON value or PatchFails)
    PatchFails,     \* the patch does not apply
    Context,        \* entries of an @context array
    NoContext,      \* the @context of an update is missing or not an array
    Undecodable,    \* a proofValue that is not a multibase-encoded signature
    MaxVersionId,   \* largest targetVersionId the JSON parser yields (i64::MAX)
    Update,         \* the parsed update payloads in existence
    UpdateJson,     \* update -> its JSON
    UnsecuredJson   \* what an update says but for its proof -> the JSON of it

(* The documents DocumentFields::try_from accepts. *)
Document == DOMAIN Fields

BeaconType == {"Singleton", "Map", "SparseMerkleTree"}

Beacon == [ty : BeaconType, descriptor : Address]

DocumentFields ==
    [id : Did,
     verification_method : [Method -> Key \cup {NoKey}],
     service : SUBSET Beacon]

(***************************************************************************)
(* Hashes.  CanonicalHash::hash hashes the JSON behind AsRef<Value>: that  *)
(* of a document, of an update with its proof, and of an update without it *)
(* (UnsecuredUpdate).                                                      *)
(***************************************************************************)
Hash(json) == <<"hash", json>>

DocHash(doc) == Hash(doc)

UpdateHash(update) == Hash(UpdateJson[update])

UnsecuredHash(update) == Hash(UnsecuredJson[update.body])

Sha256Hash == {Hash(json) : json \in Json}

(***************************************************************************)
(* Update::from_json_value reads targetVersionId as an i64 and rejects     *)
(* zero and negative numbers; source and target hash may be any 32 bytes.  *)
(***************************************************************************)
UpdateBody ==
    [source_hash : Sha256Hash,
     target_hash : Sha256Hash,
     target_version_id : 1..MaxVersionId,
     patch : Patch,
     context : Seq(Context) \cup {NoContext}]

ProofPurpose ==
    {"authentication", "assertionMethod", "capabilityInvocation",
     "capabilityDelegation", "other"}

ProofInner ==
    [capability : Did \cup {NotADid},
     verification_method : Method,
     proof_purpose : ProofPurpose,
     context : Seq(Context)]

(* What a BIP-340 signature was made over, and with which key. *)
Signature == [key : Key, body : UpdateBody, inner : ProofInner]

Proof == [inner : ProofInner, proof_value : Signature \cup {Undecodable}]

ASSUME DocumentAssumption ==
    /\ Document \subseteq Json
    /\ Fields \in [Document -> DocumentFields]

ASSUME PatchAssumption ==
    /\ PatchFails \notin Json
    /\ Patched \in [Patch -> [Json -> Json \cup {PatchFails}]]

(* An address is a text of bounded length. *)
ASSUME AddressAssumption == IsFiniteSet(Address)

ASSUME VersionAssumption == MaxVersionId \in Nat \ {0}

ASSUME UpdateAssumption == Update \subseteq [body : UpdateBody, proof : Proof]

(* What is read out of a JSON value depends on that value alone, and what  *)
(* an update says stands for all of its JSON, unknown members included.    *)
ASSUME JsonAssumption ==
    /\ UpdateJson \in [Update -> Json]
    /\ UnsecuredJson \in [{u.body : u \in Update} -> Json]
    /\ \A u, v \in Update :
           /\ UpdateJson[u] = UpdateJson[v] => u = v
           /\ UnsecuredJson[u.body] = UnsecuredJson[v.body] => u.body = v.body

-----------------------------------------------------------------------------
(* The public key find_map picks for the proof's verification method. *)
ProofKey(doc, update) ==
    Fields[doc].verification_method[update.proof.inner.verification_method]

(***************************************************************************)
(* verify_proof zips the two context arrays, so only their common prefix   *)
(* is compared, and skips the comparison when the update has no array.     *)
(***************************************************************************)
ContextsAgree(update) ==
    LET theirs == update.body.context
        ours   == update.proof.inner.context
    IN  theirs # NoContext =>
            \A i \in DOMAIN theirs \cap DOMAIN ours : theirs[i] = ours[i]

(* Slip: any key will do. *)
SignatureBySomeKey(key, update) ==
    update.proof.proof_value \in
        [key : Key, body : {update.body}, inner : {update.proof.inner}]

(* bip340_verify over the hash of the unsecured update and proof config. *)
SignatureVerifies(key, update) ==
    update.proof.proof_value =
        [key |-> key, body |-> update.body, inner |-> update.proof.inner]

(* CryptoSuite::data_integrity_verify_proof and the verify_proof it calls. *)
ProofError(key, update) ==
    IF update.proof.inner.proof_purpose # "capabilityInvocation"
        THEN "ProofVerification"
    ELSE IF update.proof.proof_value = Undecodable
        THEN "ProofVerification"
    ELSE IF ~ContextsAgree(update) \/ ~SignatureVerifies(key, update)
        THEN "InvalidUpdateProof"
    ELSE "None"

(* What json_patch::patch leaves in the document. *)
PatchedDoc(doc, update) == Patched[update.body.patch][doc]

(* Slip: the patched document is not parsed again. *)
PatchErrorUnparsed(doc, update) ==
    LET patched == PatchedDoc(doc, update)
    IN  IF patched = PatchFails \/ DocHash(patched) # update.body.target_hash
        THEN "InvalidDidUpdate"
        ELSE "None"

(* Steps 11 and 12 of apply_update and the comparison of the hashes *)
PatchError(doc, update) ==
    LET patched == PatchedDoc(doc, update)
    IN  IF \/ patched = PatchFails
           \/ patched \notin Document
           \/ DocHash(patched) # update.body.target_hash
        THEN "InvalidDidUpdate"
        ELSE "None"

(* InitialDocument::apply_update: its first error, or "None". *)
ApplyUpdateError(doc, update) ==
    LET inner == update.proof.inner
        key   == ProofKey(doc, update)
    IN  IF inner.capability = NotADid THEN "Zcap"
        ELSE IF inner.capability # Fields[doc].id THEN "InvalidDidUpdate"
        ELSE IF key = NoKey THEN "ProofVerification"
        ELSE IF ProofError(key, update) # "None" THEN ProofError(key, update)
        ELSE PatchError(doc, update)

(***************************************************************************)
(* The document apply_update leaves behind.  The patch is written into the *)
(* document before the result is checked, so a rejected result stays in it *)
(* (a patch that does not apply is rolled back by json_patch).             *)
(***************************************************************************)
DocAfterUpdate(doc, update) ==
    LET patched  == PatchedDoc(doc, update)
        verified == /\ update.proof.inner.capability = Fields[doc].id
                    /\ ProofKey(doc, update) # NoKey
                    /\ ProofError(ProofKey(doc, update), update) = "None"
    IN  IF verified /\ patched # PatchFails THEN patched ELSE doc

(* The update takes the document to its successor and the code accepts it. *)
Verified(doc, update) == ApplyUpdateError(doc, update) = "None"

(* The addresses at which the controller of a document announces updates. *)
BeaconAddresses(doc) == {beacon.descriptor : beacon \in Fields[doc].service}

OnlySingletons(doc) ==
    \A beacon \in Fields[doc].service : beacon.ty = "Singleton"
=============================================================================
