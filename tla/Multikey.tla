------------------------------ MODULE Multikey ------------------------------
(***************************************************************************)
(* Public keys in documents and in DIDs, src/key.rs: how a key is written  *)
(* as a Multikey and read back.  The base58 and secp256k1 crates are       *)
(* external: bytes are members of Genesis, and PublicKey::from_slice takes *)
(* compressed as well as uncompressed points.                              *)
(***************************************************************************)
EXTENDS Identifier

CONSTANTS
    Point,        \* public keys
    NotAPoint,    \* marks bytes that from_slice rejects
    PointOf,      \* bytes -> the key from_slice makes of them or NotAPoint
    Compressed    \* key -> the bytes serialize() makes of it

ASSUME PointAssumption ==
    /\ NotAPoint \notin Point
    /\ PointOf \in [Genesis -> Point \cup {NotAPoint}]
    /\ Compressed \in [Point -> Genesis]
    /\ \A point \in Point :
           /\ PointOf[Compressed[point]] = point
           /\ GenesisLength[Compressed[point]] = PublicKeySize

MULTIKEY_PREFIX == <<231, 1>>

(***************************************************************************)
(* A Multikey text: its multibase prefix, whether the rest is base58, and  *)
(* what it decodes to: a prefix and the bytes after it, or less than that. *)
(***************************************************************************)
MultikeyText ==
    [multibase : {"z", "other"}, base58 : BOOLEAN,
     data : {<<>>} \cup (Byte \X Byte) \X Genesis]

(* from_multikey: its first error, or "None" *)
MultikeyError(text) ==
    IF text.multibase # "z" THEN "MultibasePrefix"
    ELSE IF ~text.base58 THEN "MultikeyBase58"
    ELSE IF text.data = <<>> \/ text.data[1] # MULTIKEY_PREFIX THEN "MultikeyPrefix"
    ELSE IF PointOf[text.data[2]] = NotAPoint THEN "InvalidBytesForPublicKey"
    ELSE "None"

FromMultikey(text) == PointOf[text.data[2]]

ToMultikey(point) ==
    [multibase |-> "z", base58 |-> TRUE,
     data |-> <<MULTIKEY_PREFIX, Compressed[point]>>]

(* Did::public_key_unchecked, NotAPoint where it panics *)
PublicKeyUnchecked(did_of) == PointOf[did_of.components.id_type.genesis]
=============================================================================
