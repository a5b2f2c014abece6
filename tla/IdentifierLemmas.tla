-------------------------- MODULE IdentifierLemmas --------------------------
(***************************************************************************)
(* What the conversions between the text of a did:btc1 identifier and its  *)
(* components do to each other, for all genesis bytes.                     *)
(***************************************************************************)
EXTENDS Identifier, Integers, TLAPS

(* A byte is its two nibbles. *)
LEMMA LowByte ==
    ASSUME NEW b \in 0..15
    PROVE  b \div 16 = 0 /\ b % 16 = b
  BY SMT

LEMMA HighNibbleZero ==
    ASSUME NEW b \in Byte, ((b \div 16) % 16) + 1 = 1
    PROVE  b \in 0..15
  BY SMT DEF Byte

(* The numbers of the networks the text has room for are read back. *)
LEMMA NetworkReadBack ==
    ASSUME NEW network \in Network, Encodable(network)
    PROVE  /\ NetworkNumber(network) \in 0..15
           /\ NetworkOf(NetworkNumber(network)) = network
  <1>1. CASE network \in {<<"Custom", n>> : n \in Byte}
    <2>1. PICK n \in Byte : network = <<"Custom", n>>
      BY <1>1
    <2>2. network[1] = "Custom" /\ network[2] = n
      BY <2>1
    <2>3. Len(NamedNetworks) = 6
      BY DEF NamedNetworks
    <2>4. n \in 6..15
      BY <2>2, <2>3 DEF Encodable
    <2>5. NetworkNumber(network) = n
      BY <2>2 DEF NetworkNumber
    <2>6. NetworkOf(n) = <<"Custom", n>>
      BY <2>3, <2>4 DEF NetworkOf
    <2> QED BY <2>1, <2>4, <2>5, <2>6
  <1>2. CASE network \in {<<NamedNetworks[n]>> : n \in DOMAIN NamedNetworks}
    <2>1. PICK n \in DOMAIN NamedNetworks : network = <<NamedNetworks[n]>>
      BY <1>2
    <2>2. n \in 1..6 /\ network[1] = NamedNetworks[n] /\ network[1] # "Custom"
      BY <2>1 DEF NamedNetworks
    <2>3. \A m \in DOMAIN NamedNetworks : NamedNetworks[m] = network[1] => m = n
      BY <2>1, <2>2 DEF NamedNetworks
    <2>4. NetworkNumber(network) = n - 1
      BY <2>2, <2>3, <2>1 DEF NetworkNumber
    <2>5. n - 1 < Len(NamedNetworks) /\ (n - 1) + 1 = n
      BY <2>2 DEF NamedNetworks
    <2> QED BY <2>1, <2>2, <2>4, <2>5 DEF NetworkOf
  <1> QED BY <1>1, <1>2 DEF Network

(* And so are the networks of every nibble written back. *)
LEMMA NibbleWrittenBack ==
    ASSUME NEW b \in 0..15
    PROVE  NetworkOf(b) \in Network /\ NetworkNumber(NetworkOf(b)) = b
  <1>1. CASE b < Len(NamedNetworks)
    <2>1. b + 1 \in DOMAIN NamedNetworks /\ b \in 0..5
      BY <1>1 DEF NamedNetworks
    <2>2. NetworkOf(b) = <<NamedNetworks[b + 1]>>
      BY <1>1 DEF NetworkOf
    <2>3. NamedNetworks[b + 1] # "Custom"
      BY <2>1 DEF NamedNetworks
    <2>4. \A m \in DOMAIN NamedNetworks :
              NamedNetworks[m] = NamedNetworks[b + 1] => m = b + 1
      BY <2>1 DEF NamedNetworks
    <2>5. NetworkOf(b)[1] = NamedNetworks[b + 1]
      BY <2>2
    <2>6. NetworkNumber(NetworkOf(b)) = (CHOOSE m \in DOMAIN NamedNetworks :
                                            NamedNetworks[m] = NetworkOf(b)[1]) - 1
      BY <2>3, <2>5 DEF NetworkNumber
    <2>7. (CHOOSE m \in DOMAIN NamedNetworks :
               NamedNetworks[m] = NetworkOf(b)[1]) = b + 1
      BY <2>1, <2>4, <2>5
    <2>8. NetworkNumber(NetworkOf(b)) = (b + 1) - 1
      BY <2>6, <2>7
    <2> QED BY <2>1, <2>2, <2>8 DEF Network
  <1>2. CASE ~(b < Len(NamedNetworks))
    <2>1. NetworkOf(b) = <<"Custom", b>>
      BY <1>2 DEF NetworkOf
    <2>2. <<"Custom", b>>[1] = "Custom" /\ <<"Custom", b>>[2] = b
      OBVIOUS
    <2>4. NetworkNumber(NetworkOf(b)) = b
      BY <2>1, <2>2 DEF NetworkNumber
    <2>3. b \in Byte
      BY DEF Byte
    <2>5. <<"Custom", b>> \in {<<"Custom", n>> : n \in Byte}
      BY <2>3
    <2> QED BY <2>1, <2>4, <2>5 DEF Network
  <1> QED BY <1>1, <1>2

(* Encoding components the text has room for yields a text that parses to  *)
(* them.                                                                   *)
LEMMA EncodedParses ==
    ASSUME NEW components \in DidComponents, Encodable(components.network)
    PROVE  /\ ParseError(EncodeDid(components)) = "None"
           /\ ParsedComponents(EncodeDid(components)) = components
  <1> DEFINE text == EncodeDid(components)
             b    == NetworkNumber(components.network)
  <1>1. /\ components.version = 1
        /\ components.network \in Network
        /\ components.id_type \in IdType
        /\ components = [version |-> components.version,
                         network |-> components.network,
                         id_type |-> components.id_type]
    BY DEF DidComponents, DidVersion
  <1>2. b \in 0..15 /\ NetworkOf(b) = components.network
    BY <1>1, NetworkReadBack
  <1>3. b \div 16 = 0 /\ b % 16 = b
    BY <1>2, LowByte
  <1>4. VersionNibble(components.version) = 0
    BY <1>1 DEF VersionNibble
  <1>5. VersionNibble(components.version) * 16 + NetworkNibble(components.network) = b
    BY <1>2, <1>3, <1>4 DEF NetworkNibble
  <1>6. /\ text.prefix = "did:btc1:"
        /\ text.decodes = TRUE
        /\ text.hrp = components.id_type.hrp
        /\ text.data = <<b, components.id_type.genesis>>
    BY <1>5 DEF EncodeDid
  <1>7. /\ components.id_type.hrp \in {"k", "x"}
        /\ GenesisLength[components.id_type.genesis]
               = GenesisSize(components.id_type.hrp)
        /\ components.id_type = [hrp |-> components.id_type.hrp,
                                 genesis |-> components.id_type.genesis]
    BY <1>1 DEF IdType
  <1>8. text.data # <<>> /\ text.data[1] = b
            /\ text.data[2] = components.id_type.genesis
    BY <1>6
  <1>9. ParsedVersion(text) = 1 /\ ParsedNetwork(text) = components.network
    BY <1>2, <1>3, <1>8 DEF ParsedVersion, ParsedNetwork
  <1>10. IdTypeError(text) = "None"
    BY <1>6, <1>7, <1>8 DEF IdTypeError
  <1>11. ParseError(text) = "None"
    BY <1>6, <1>9, <1>10 DEF ParseError, ValidVersion
  <1>12. ParsedComponents(text) = components
    BY <1>1, <1>6, <1>7, <1>8, <1>9 DEF ParsedComponents
  <1> QED BY <1>11, <1>12

(* Writing back what was parsed yields the text it was parsed from. *)
LEMMA ParsedEncodes ==
    ASSUME NEW text \in DidText, ParseError(text) = "None"
    PROVE  EncodeDid(ParsedComponents(text)) = text
  <1>1. /\ text.prefix = "did:btc1:"
        /\ text.decodes = TRUE
        /\ IdTypeError(text) = "None"
        /\ ParsedVersion(text) = 1
    BY DEF ParseError, ValidVersion, DidText
  <1>2. text.data \in Byte \X Genesis
    BY <1>1 DEF IdTypeError, DidText
  <1> DEFINE b == text.data[1]
  <1>3. /\ b \in Byte
        /\ text.data = <<b, text.data[2]>>
    BY <1>2
  <1>4. b \in 0..15
    BY <1>1, <1>3, HighNibbleZero DEF ParsedVersion
  <1>5. b % 16 = b
    BY <1>4, LowByte
  <1>6. NetworkNumber(ParsedNetwork(text)) = b
    BY <1>4, <1>5, NibbleWrittenBack DEF ParsedNetwork
  <1>7. VersionNibble(ParsedVersion(text)) = 0
    BY <1>1 DEF VersionNibble
  <1>8. VersionNibble(ParsedVersion(text)) * 16
            + NetworkNibble(ParsedNetwork(text)) = b
    BY <1>4, <1>5, <1>6, <1>7 DEF NetworkNibble
  <1>9. text = [prefix |-> text.prefix, decodes |-> text.decodes,
                hrp |-> text.hrp, data |-> text.data]
    BY DEF DidText
  <1>10. EncodeDid(ParsedComponents(text)) =
             [prefix |-> "did:btc1:", decodes |-> TRUE, hrp |-> text.hrp,
              data |-> <<b, text.data[2]>>]
    BY <1>8 DEF EncodeDid, ParsedComponents
  <1> QED BY <1>1, <1>3, <1>9, <1>10

(* The number of a network, whether or not the text has room for it. *)
LEMMA NumberIsAByte ==
    ASSUME NEW network \in Network
    PROVE  NetworkNumber(network) \in Byte
  <1>1. CASE network \in {<<"Custom", n>> : n \in Byte}
    <2>1. PICK n \in Byte : network = <<"Custom", n>>
      BY <1>1
    <2>2. network[1] = "Custom" /\ network[2] = n
      BY <2>1
    <2> QED BY <2>2 DEF NetworkNumber
  <1>2. CASE network \in {<<NamedNetworks[n]>> : n \in DOMAIN NamedNetworks}
    <2>1. PICK n \in DOMAIN NamedNetworks : network = <<NamedNetworks[n]>>
      BY <1>2
    <2>2. n \in 1..6 /\ network[1] = NamedNetworks[n] /\ network[1] # "Custom"
      BY <2>1 DEF NamedNetworks
    <2>3. \A m \in DOMAIN NamedNetworks : NamedNetworks[m] = network[1] => m = n
      BY <2>1, <2>2 DEF NamedNetworks
    <2>4. NetworkNumber(network) = n - 1
      BY <2>2, <2>3, <2>1 DEF NetworkNumber
    <2> QED BY <2>2, <2>4 DEF Byte
  <1> QED BY <1>1, <1>2 DEF Network

(* A text made of components parses, whatever network they name. *)
LEMMA EncodedAlwaysParses ==
    ASSUME NEW components, components.version = 1,
           components.network \in Network, components.id_type \in IdType
    PROVE  ParseError(EncodeDid(components)) = "None"
  <1> DEFINE text == EncodeDid(components)
             b    == NetworkNibble(components.network)
  <1>1. b \in 0..15
    <2>1. NetworkNumber(components.network) \in Byte
      BY NumberIsAByte
    <2> QED BY <2>1 DEF NetworkNibble, Byte
  <1>2. VersionNibble(components.version) * 16 + b = b
    BY <1>1 DEF VersionNibble
  <1>3. /\ text.prefix = "did:btc1:"
        /\ text.decodes = TRUE
        /\ text.hrp = components.id_type.hrp
        /\ text.data = <<b, components.id_type.genesis>>
    BY <1>2 DEF EncodeDid
  <1>4. text.data # <<>> /\ text.data[1] = b
            /\ text.data[2] = components.id_type.genesis
    BY <1>3
  <1>5. b \div 16 = 0
    BY <1>1, LowByte
  <1>6. ParsedVersion(text) = 1
    BY <1>4, <1>5 DEF ParsedVersion
  <1>7. IdTypeError(text) = "None"
    BY <1>3, <1>4 DEF IdTypeError, IdType
  <1> QED BY <1>3, <1>6, <1>7 DEF ParseError, ValidVersion
=============================================================================
