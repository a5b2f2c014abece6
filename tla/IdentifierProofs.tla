-------------------------- MODULE IdentifierProofs --------------------------
(***************************************************************************)
(* The text of a did:btc1 identifier and its components determine each     *)
(* other, for all genesis bytes.                                           *)
(***************************************************************************)
EXTENDS DidValue, IdentifierLemmas

(* Where a Did comes from. *)
Origin ==
    /\ origin = "parsed" =>
           \E text \in DidText : ParseError(text) = "None" /\ did = DidOf(text)
    /\ origin = "components" =>
           \E components \in DidComponents : did = DidFrom(components)

LEMMA OriginInvariant == IdentifierSpec => []Origin
  <1>1. IdentifierInit => Origin
    BY DEF IdentifierInit, Origin
  <1>2. Origin /\ [IdentifierNext]_didVars => Origin'
    <2> SUFFICES ASSUME Origin, [IdentifierNext]_didVars PROVE Origin'
      OBVIOUS
    <2>1. ASSUME NEW text \in DidText, FromStr(text) PROVE Origin'
      <3>1. CASE ParseError(text) = "None"
        BY <2>1, <3>1 DEF FromStr, Origin
      <3>2. CASE ParseError(text) # "None"
        <4>1. ParseError(text) \notin {"parsed", "components"}
          BY DEF ParseError, IdTypeError
        <4> QED BY <2>1, <3>2, <4>1 DEF FromStr, Origin
      <3> QED BY <3>1, <3>2
    <2>2. ASSUME NEW components \in DidComponents, FromComponents(components)
          PROVE  Origin'
      BY <2>2 DEF FromComponents, Origin
    <2>3. ASSUME NEW prefix \in BOOLEAN, NEW text \in DidText,
                 DereferenceRootCapability(prefix, text)
          PROVE  Origin'
      BY <2>3 DEF DereferenceRootCapability, Origin
    <2>4. CASE UNCHANGED didVars
      BY <2>4 DEF didVars, Origin
    <2> QED BY <2>1, <2>2, <2>3, <2>4 DEF IdentifierNext
  <1> QED BY <1>1, <1>2, PTL DEF IdentifierSpec

(* The text of every Did parses to its components (src/identifier.rs:121   *)
(* and 383), if the text has room for its network.                         *)
THEOREM TextAgrees == IdentifierSpec => []TextAndComponentsAgree
  <1>1. Origin => TextAndComponentsAgree
    <2> SUFFICES ASSUME Origin, HasDid, Encodable(did.components.network)
                 PROVE  /\ ParseError(did.encoded) = "None"
                        /\ ParsedComponents(did.encoded) = did.components
      BY DEF TextAndComponentsAgree
    <2>1. CASE origin = "parsed"
      BY <2>1 DEF Origin, DidOf
    <2>2. CASE origin = "components"
      <3>1. PICK components \in DidComponents : did = DidFrom(components)
        BY <2>2 DEF Origin
      <3>2. did.components = components /\ did.encoded = EncodeDid(components)
        BY <3>1 DEF DidFrom
      <3> QED BY <3>2, EncodedParses
    <2> QED BY <2>1, <2>2 DEF HasDid
  <1> QED BY <1>1, OriginInvariant, PTL

(* No two texts parse to the same Did: equality of Dids is equality of     *)
(* their texts (src/document.rs:449).                                      *)
THEOREM OneText == IdentifierSpec => []OneTextPerDid
  <1>1. Origin => OneTextPerDid
    BY ParsedEncodes DEF Origin, OneTextPerDid, DidOf
  <1> QED BY <1>1, OriginInvariant, PTL
=============================================================================
