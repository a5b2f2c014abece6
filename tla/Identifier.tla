----------------------------- MODULE Identifier -----------------------------
(***************************************************************************)
(* did:btc1 identifiers, src/identifier.rs: how the components of a DID    *)
(* are packed into its text and read back.  The bech32 crate is external;  *)
(* it turns a human-readable part and data bytes into text and back.       *)
(***************************************************************************)
EXTENDS Naturals, Sequences

CONSTANTS
    Genesis,          \* byte strings: public keys, hashes and others
    GenesisLength     \* how many bytes each of them has

Byte == 0..255

DidVersion == {1}

NamedNetworks ==
    <<"Mainnet", "Signet", "Regtest", "TestnetV3", "TestnetV4", "Mutinynet">>

(* Network::Custom is public and holds any u8. *)
Network ==
    {<<NamedNetworks[n]>> : n \in DOMAIN NamedNetworks}
        \cup {<<"Custom", n>> : n \in Byte}

(* DidVersion and Network from a number (TryFrom<u8>) and back. *)
ValidVersion(number) == number = 1

NetworkOf(nibble) ==
    IF nibble < Len(NamedNetworks) THEN <<NamedNetworks[nibble + 1]>>
                                   ELSE <<"Custom", nibble>>

NetworkNumber(network) ==
    IF network[1] = "Custom" THEN network[2]
    ELSE (CHOOSE n \in DOMAIN NamedNetworks : NamedNetworks[n] = network[1]) - 1

(* The networks that fit into the four bits the text has for them, apart   *)
(* from custom numbers that stand for a named network.                     *)
Encodable(network) ==
    network[1] = "Custom" => network[2] \in Len(NamedNetworks)..15

(* The Bitcoin network behind a network, "None" where there is no such one. *)
BitcoinNetwork(network) ==
    CASE network[1] = "Mainnet" -> "Bitcoin"
      [] network[1] = "TestnetV3" -> "Testnet"
      [] network[1] = "Regtest" -> "Regtest"
      [] network[1] \in {"Signet", "Mutinynet"} -> "Signet"
      [] network[1] \in {"TestnetV4", "Custom"} -> "None"

PublicKeySize == 33
Sha256HashLen == 32

GenesisSize(hrp) == IF hrp = "k" THEN PublicKeySize ELSE Sha256HashLen

IdType ==
    {id \in [hrp : {"k", "x"}, genesis : Genesis] :
        GenesisLength[id.genesis] = GenesisSize(id.hrp)}

DidComponents == [version : DidVersion, network : Network, id_type : IdType]

(***************************************************************************)
(* The text of a DID: its prefix, and what bech32 decodes the rest to, if  *)
(* it decodes; the data is a byte followed by the genesis bytes, or empty. *)
(***************************************************************************)
DidText ==
    [prefix : {"did:btc1:", "other"}, decodes : BOOLEAN,
     hrp : {"k", "x", "other"}, data : {<<>>} \cup (Byte \X Genesis)]

ASSUME GenesisAssumption == GenesisLength \in [Genesis -> Nat]

-----------------------------------------------------------------------------
(* encode_did_identifier masks both numbers to four bits. *)
(* Slip: versions are not counted from zero. *)
VersionNibbleUnshifted(version) == version % 16

VersionNibble(version) == (version - 1) % 16

(* Slip: the mask is a bit short. *)
NetworkThreeBits(network) == NetworkNumber(network) % 8

NetworkNibble(network) == NetworkNumber(network) % 16

EncodeDid(components) ==
    [prefix |-> "did:btc1:", decodes |-> TRUE, hrp |-> components.id_type.hrp,
     data |-> <<VersionNibble(components.version) * 16
                    + NetworkNibble(components.network),
                components.id_type.genesis>>]

(* IdType::try_from *)
IdTypeError(text) ==
    IF text.data = <<>> THEN "InvalidDidFormat"
    ELSE IF text.hrp \notin {"k", "x"} THEN "InvalidHrp"
    ELSE IF GenesisLength[text.data[2]] # GenesisSize(text.hrp)
        THEN "InvalidGenesisLength"
    ELSE "None"

ParsedVersion(text) == ((text.data[1] \div 16) % 16) + 1

ParsedNetwork(text) == NetworkOf(text.data[1] % 16)

(* parse_did_identifier: its first error, or "None" *)
ParseError(text) ==
    IF text.prefix # "did:btc1:" THEN "InvalidDidFormat"
    ELSE IF ~text.decodes THEN "Bech32"
    ELSE IF IdTypeError(text) # "None" THEN IdTypeError(text)
    ELSE IF ~ValidVersion(ParsedVersion(text)) THEN "InvalidVersion"
    ELSE "None"

ParsedComponents(text) ==
    [version |-> ParsedVersion(text),
     network |-> ParsedNetwork(text),
     id_type |-> [hrp |-> text.hrp, genesis |-> text.data[2]]]

(* The Did of its text (FromStr) and of its components (From). *)
DidOf(text) == [encoded |-> text, components |-> ParsedComponents(text)]

DidFrom(components) ==
    [encoded |-> EncodeDid(components), components |-> components]
=============================================================================
