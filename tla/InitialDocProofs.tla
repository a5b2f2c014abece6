-------------------------- MODULE InitialDocProofs --------------------------
(***************************************************************************)
(* Theorems about the creation and the reading of initial documents, for   *)
(* all drafts, networks, keys and lengths of arrays.                       *)
(***************************************************************************)
EXTENDS InitialDoc, IdentifierLemmas, WellFoundedInduction

-----------------------------------------------------------------------------
(* Where the values of the three variables come from. *)
DraftOrigin ==
    draft # NoDraft =>
        /\ draft.json \in Draft
        /\ IntermediateError(draft.json, draft.network) = "None"

CreatedOrigin ==
    created # NoCreated =>
        /\ created.from.json \in Draft
        /\ IntermediateError(created.from.json, created.from.network) = "None"
        /\ created.network \in Networks
        /\ created.did = DidFrom(ExternalComponents(created.from.json, created.network))
        /\ created.json = IntoInitial(created.from.json, created.did.encoded)
        /\ created.verdict =
               IF InitialError(created.json) = "None" THEN "None" ELSE "Panic"

IsKeyDid(did_of) ==
    \E components \in KeyComponents :
        did_of \in {DidFrom(components), DidOf(EncodeDid(components))}

ReadOrigin ==
    read # NoRead =>
        /\ \/ IsKeyDid(read.did)
           \/ read.did.components.id_type.hrp = "x"
        /\ read.verdict = ReadVerdict(read.did, read.sidecar)
        /\ read.verdict = "None" =>
               read.json = IF read.did.components.id_type.hrp = "k"
                           THEN DeterministicallyGenerate(read.did)
                           ELSE read.sidecar

DocInv == DraftOrigin /\ CreatedOrigin /\ ReadOrigin

(* What was made of a draft is an external DID. *)
LEMMA CreatedIsExternal ==
    ASSUME CreatedOrigin, created # NoCreated
    PROVE  created.did.components.id_type.hrp = "x"
  <1>1. created.did.components = ExternalComponents(created.from.json, created.network)
    BY DEF CreatedOrigin, DidFrom
  <1> QED BY <1>1 DEF ExternalComponents

LEMMA FromDidKeepsOrigin ==
    ASSUME NEW did_of, NEW sidecar, FromDid(did_of, sidecar),
           IsKeyDid(did_of) \/ did_of.components.id_type.hrp = "x"
    PROVE  ReadOrigin'
  <1>1. /\ read'.did = did_of
        /\ read'.sidecar = sidecar
        /\ read'.verdict = ReadVerdict(did_of, sidecar)
        /\ read'.json = IF ReadVerdict(did_of, sidecar) # "None" THEN Nothing
                        ELSE IF did_of.components.id_type.hrp = "k"
                        THEN DeterministicallyGenerate(did_of) ELSE sidecar
    BY DEF FromDid
  <1> QED BY <1>1 DEF ReadOrigin

LEMMA DocInvariant == DocSpec => []DocInv
  <1>1. DocInit => DocInv
    BY DEF DocInit, DocInv, DraftOrigin, CreatedOrigin, ReadOrigin
  <1>2. DocInv /\ [DocNext]_docVars => DocInv'
    <2> SUFFICES ASSUME DocInv, [DocNext]_docVars
                 PROVE  DocInv'
      OBVIOUS
    <2> USE DEF DocInv
    <2>1. ASSUME NEW json \in Draft, NEW network \in Networks,
                 ParseIntermediate(json, network)
          PROVE  DocInv'
      <3>1. draft'.json = json /\ draft'.network = network
        BY <2>1 DEF ParseIntermediate
      <3>2. DraftOrigin'
        BY <2>1, <3>1 DEF ParseIntermediate, DraftOrigin
      <3>3. CreatedOrigin' /\ ReadOrigin'
        BY <2>1 DEF ParseIntermediate, CreatedOrigin, ReadOrigin
      <3> QED BY <3>2, <3>3
    <2>2. ASSUME NEW network \in Networks, FromExternalIntermediate(network)
          PROVE  DocInv'
      <3> DEFINE components == ExternalComponents(draft.json, network)
                 json == IntoInitial(draft.json, EncodeDid(components))
      <3>1. /\ created'.from = draft
            /\ created'.network = network
            /\ created'.did = DidFrom(components)
            /\ created'.json = json
            /\ created'.verdict =
                   IF InitialError(json) = "None" THEN "None" ELSE "Panic"
        BY <2>2 DEF FromExternalIntermediate
      <3>2. DidFrom(components).encoded = EncodeDid(components)
        BY DEF DidFrom
      <3>3. draft.json \in Draft
                /\ IntermediateError(draft.json, draft.network) = "None"
        BY <2>2 DEF FromExternalIntermediate, DraftOrigin
      <3>4. CreatedOrigin'
        BY <3>1, <3>2, <3>3 DEF CreatedOrigin
      <3>5. DraftOrigin' /\ ReadOrigin'
        BY <2>2 DEF FromExternalIntermediate, DraftOrigin, ReadOrigin
      <3> QED BY <3>4, <3>5
    <2>3. ASSUME ReadCreated
          PROVE  DocInv'
      <3>1. PICK sidecar \in Sidecars \cup {Nothing} : FromDid(created.did, sidecar)
        BY <2>3 DEF ReadCreated
      <3>2. created # NoCreated
        BY <2>3 DEF ReadCreated, NoCreated
      <3>3. ReadOrigin'
        BY <3>1, <3>2, CreatedIsExternal, FromDidKeepsOrigin
      <3>4. DraftOrigin' /\ CreatedOrigin'
        BY <3>1 DEF FromDid, DraftOrigin, CreatedOrigin
      <3> QED BY <3>3, <3>4
    <2>4. ASSUME ReadKey
          PROVE  DocInv'
      <3>1. PICK did_of : IsKeyDid(did_of) /\ FromDid(did_of, Nothing)
        BY <2>4 DEF ReadKey, IsKeyDid
      <3>2. ReadOrigin'
        BY <3>1, FromDidKeepsOrigin
      <3>3. DraftOrigin' /\ CreatedOrigin'
        BY <3>1 DEF FromDid, DraftOrigin, CreatedOrigin
      <3> QED BY <3>2, <3>3
    <2>5. CASE UNCHANGED docVars
      BY <2>5 DEF docVars, DraftOrigin, CreatedOrigin, ReadOrigin
    <2> QED BY <2>1, <2>2, <2>3, <2>4, <2>5 DEF DocNext
  <1> QED BY <1>1, <1>2, PTL DEF DocSpec

-----------------------------------------------------------------------------
(* Replacing the placeholder and replacing it back *)
LEMMA PlaceholderIsNoMention ==
    ASSUME NEW text
    PROVE  Placeholder # Mention(text)
  <1>1. Placeholder[1] = "placeholder" /\ Mention(text)[1] = "did"
    BY DEF Placeholder, Mention
  <1> QED BY <1>1

LEMMA IdIsReplaced ==
    ASSUME NEW json, NEW text, Id(json) = Placeholder
    PROVE  Id(IntoInitial(json, text)) = Mention(text)
  <1>1. <<"id">> \in Path
    BY DEF Path
  <1> QED BY <1>1 DEF IntoInitial, FindAndReplace, Id

(* What into_initial puts in, from_initial takes out again. *)
LEMMA FromInitialUndoes ==
    ASSUME NEW json, json = [path \in Path |-> json[path]], NEW text,
           Id(json) = Placeholder,
           \A path \in Path : json[path] # Mention(text)
    PROVE  FromInitial(IntoInitial(json, text)) = json
  <1> DEFINE initial == IntoInitial(json, text)
  <1>1. Id(initial) = Mention(text)
    BY IdIsReplaced
  <1>2. \A path \in Path :
            initial[path] = IF json[path] = Placeholder THEN Mention(text)
                                                        ELSE json[path]
    BY DEF IntoInitial, FindAndReplace
  <1>3. \A path \in Path :
            (IF initial[path] = Mention(text) THEN Placeholder ELSE initial[path])
                = json[path]
    BY <1>2
  <1>4. FromInitial(initial) =
            [path \in Path |-> IF initial[path] = Mention(text) THEN Placeholder
                                                                ELSE initial[path]]
    BY <1>1 DEF FromInitial, FindAndReplace
  <1> QED BY <1>3, <1>4

(* And a document from which it is taken out can only be the one into      *)
(* which it was put.                                                       *)
LEMMA IntoInitialUndoes ==
    ASSUME NEW json, NEW text, Id(json) = Mention(text)
    PROVE  IntoInitial(FromInitial(json), text) = IntoInitial(json, text)
  <1> DEFINE back == FromInitial(json)
  <1>1. \A path \in Path :
            back[path] = IF json[path] = Mention(text) THEN Placeholder
                                                       ELSE json[path]
    BY DEF FromInitial, FindAndReplace
  <1>2. \A path \in Path :
            (IF back[path] = Placeholder THEN Mention(text) ELSE back[path])
            = IF json[path] = Placeholder THEN Mention(text) ELSE json[path]
    BY <1>1
  <1> QED BY <1>2 DEF IntoInitial, FindAndReplace

(* What is read for an external DID is a sidecar document with its hash. *)
LEMMA ReadVerdictOfExternal ==
    ASSUME NEW did_of, NEW sidecar, did_of.components.id_type.hrp = "x"
    PROVE  ReadVerdict(did_of, sidecar) = "None" <=>
               /\ sidecar # Nothing
               /\ SidecarValid(sidecar, did_of.components.id_type.genesis)
  BY DEF ReadVerdict

LEMMA HashIsInjective ==
    ASSUME NEW a, NEW b, Hash(a) = Hash(b)
    PROVE  a = b
  BY DEF Hash

(* The document created with an external DID can be read with it. *)
THEOREM CreatedIsReadable == DocSpec => []CreatedCanBeRead
  <1>1. DocInv => CreatedCanBeRead
    <2> SUFFICES ASSUME DocInv,
                        created.verdict = "None",
                        FromPlaceholder,
                        read.did = created.did,
                        read.sidecar # Nothing,
                        read.sidecar = created.json
                 PROVE  /\ read.verdict = "None"
                        /\ Id(read.json) = Mention(created.did.encoded)
      BY DEF CreatedCanBeRead
    <2> DEFINE json == created.from.json
               components == ExternalComponents(json, created.network)
               text == created.did.encoded
    <2>1. created # NoCreated /\ read # NoRead
      BY DEF NoCreated, NoRead
    <2>2. /\ json \in Draft
          /\ created.network \in Networks
          /\ created.did = DidFrom(components)
          /\ created.json = IntoInitial(json, text)
      BY <2>1 DEF DocInv, CreatedOrigin
    <2>3. read.did.components.id_type.hrp = "x"
      BY <2>1, CreatedIsExternal DEF DocInv
    <2>4. text = EncodeDid(components)
              /\ created.did.components.id_type.genesis = Hash(json)
      BY <2>2 DEF DidFrom, ExternalComponents
    <2>5. FromInitial(created.json) = json
      <3>1. Id(json) = Placeholder
        BY DEF FromPlaceholder
      <3>2. json = [path \in Path |-> json[path]]
                /\ \A path \in Path : json[path] # Mention(text)
        BY <2>2, <2>4, DraftAssumption DEF WellFormed
      <3> QED BY <2>2, <3>1, <3>2, FromInitialUndoes
    <2>6. SidecarValid(created.json, created.did.components.id_type.genesis)
      BY <2>4, <2>5 DEF SidecarValid
    <2>7. read.verdict = "None"
      BY <2>1, <2>3, <2>6, ReadVerdictOfExternal DEF DocInv, ReadOrigin
    <2>8. read.json = created.json
      BY <2>1, <2>3, <2>7 DEF DocInv, ReadOrigin
    <2> QED BY <2>2, <2>7, <2>8, IdIsReplaced DEF FromPlaceholder
  <1> QED BY <1>1, DocInvariant, PTL

(* What is accepted for an external DID under that id is, but for          *)
(* placeholders, what was created with it.                                 *)
THEOREM AcceptedWasCreated == DocSpec => []AcceptedIsCreated
  <1>1. DocInv => AcceptedIsCreated
    <2> SUFFICES ASSUME DocInv,
                        read.verdict = "None",
                        created.verdict = "None",
                        read.did = created.did,
                        Id(read.json) = Mention(created.did.encoded)
                 PROVE  IntoInitial(read.json, created.did.encoded) = created.json
      BY DEF AcceptedIsCreated
    <2> DEFINE text == created.did.encoded
    <2>1. created # NoCreated /\ read # NoRead
      BY DEF NoCreated, NoRead
    <2>2. read.did.components.id_type.hrp = "x"
      BY <2>1, CreatedIsExternal DEF DocInv
    <2>3. /\ SidecarValid(read.sidecar, read.did.components.id_type.genesis)
          /\ read.json = read.sidecar
      BY <2>1, <2>2, ReadVerdictOfExternal DEF DocInv, ReadOrigin
    <2>4. created.did.components.id_type.genesis = Hash(created.from.json)
      BY <2>1 DEF DocInv, CreatedOrigin, DidFrom, ExternalComponents
    <2>5. FromInitial(read.json) = created.from.json
      BY <2>3, <2>4, HashIsInjective DEF SidecarValid
    <2>6. created.json = IntoInitial(created.from.json, text)
      BY <2>1 DEF DocInv, CreatedOrigin
    <2> QED BY <2>5, <2>6, IntoInitialUndoes
  <1> QED BY <1>1, DocInvariant, PTL

-----------------------------------------------------------------------------
(* One check after the other succeeds exactly if every one of them does.   *)
LEMMA NoFirstError ==
    ASSUME NEW errors, DOMAIN errors \subseteq Nat
    PROVE  FirstError(errors) = "None" <=> \A i \in DOMAIN errors : errors[i] = "None"
  <1> DEFINE failed == {i \in DOMAIN errors : errors[i] # "None"}
             first  == CHOOSE i \in failed : \A j \in failed : i <= j
  <1>1. CASE failed = {}
    BY <1>1 DEF FirstError
  <1>2. CASE failed # {}
    <2>1. \E i \in failed : \A j \in failed : ~ (<<j, i>> \in OpToRel(<, Nat))
      BY <1>2, NatLessThanWellFounded, WFMin
    <2>2. PICK i \in failed : \A j \in failed : ~ (<<j, i>> \in OpToRel(<, Nat))
      BY <2>1
    <2>3. ASSUME NEW j \in failed, j < i
          PROVE  FALSE
      <3>1. j \in Nat /\ i \in Nat
        OBVIOUS
      <3>2. <<j, i>> \in OpToRel(<, Nat)
        BY <2>3, <3>1 DEF OpToRel
      <3> QED BY <2>2, <3>2
    <2>4. first \in failed
      <3>1. \A j \in failed : i <= j
        BY <2>3
      <3> QED BY <3>1
    <2>5. FirstError(errors) = errors[first]
      BY <1>2 DEF FirstError
    <2> QED BY <2>4, <2>5
  <1> QED BY <1>1, <1>2

LEMMA NoErrorOfThree ==
    ASSUME NEW a, NEW b, NEW c
    PROVE  FirstError(<<a, b, c>>) = "None" <=> a = "None" /\ b = "None" /\ c = "None"
  <1> DEFINE errors == <<a, b, c>>
  <1>1. DOMAIN errors = 1..3 /\ errors[1] = a /\ errors[2] = b /\ errors[3] = c
    OBVIOUS
  <1>2. FirstError(errors) = "None" <=> \A i \in 1..3 : errors[i] = "None"
    BY <1>1, NoFirstError
  <1> HIDE DEF errors
  <1>3. FirstError(errors) = "None" <=> a = "None" /\ b = "None" /\ c = "None"
    BY <1>1, <1>2
  <1> QED BY <1>3 DEF errors

LEMMA NoErrorOfFive ==
    ASSUME NEW a, NEW b, NEW c, NEW d, NEW e
    PROVE  FirstError(<<a, b, c, d, e>>) = "None" <=>
               a = "None" /\ b = "None" /\ c = "None" /\ d = "None" /\ e = "None"
  <1> DEFINE errors == <<a, b, c, d, e>>
  <1>1. /\ DOMAIN errors = 1..5
        /\ errors[1] = a /\ errors[2] = b /\ errors[3] = c
        /\ errors[4] = d /\ errors[5] = e
    OBVIOUS
  <1>2. FirstError(errors) = "None" <=> \A i \in 1..5 : errors[i] = "None"
    BY <1>1, NoFirstError
  <1> HIDE DEF errors
  <1>3. FirstError(errors) = "None" <=>
            a = "None" /\ b = "None" /\ c = "None" /\ d = "None" /\ e = "None"
    BY <1>1, <1>2
  <1> QED BY <1>3 DEF errors

LEMMA NoArrayError ==
    ASSUME NEW leaf, NEW items, DOMAIN items = 1..Items,
           leaf[1] = "array" => leaf[2] \in 0..Items
    PROVE  ArrayError(leaf, items) = "None" <=>
               \/ leaf = Null
               \/ /\ leaf[1] = "array"
                  /\ \A i \in 1..leaf[2] : items[i] = "None"
  <1>1. CASE leaf = Null
    BY <1>1 DEF ArrayError
  <1>2. CASE leaf # Null /\ leaf[1] = "array"
    <2> DEFINE errors == [i \in 1..leaf[2] |-> items[i]]
    <2>1. leaf[2] \in Nat
      BY <1>2, ItemsAssumption
    <2>2. DOMAIN errors \subseteq Nat /\ DOMAIN errors = 1..leaf[2]
      BY <2>1
    <2>3. FirstError(errors) = "None" <=> \A i \in 1..leaf[2] : errors[i] = "None"
      BY <2>2, NoFirstError
    <2>4. ArrayError(leaf, items) = FirstError(errors)
      BY <1>2 DEF ArrayError
    <2> QED BY <1>2, <2>3, <2>4
  <1>3. CASE leaf # Null /\ leaf[1] # "array"
    BY <1>3 DEF ArrayError
  <1> QED BY <1>1, <1>2, <1>3

(* When a document passes the checks, member by member *)
StringsConform(json, member) ==
    \/ json[<<member>>] = Null
    \/ /\ json[<<member>>][1] = "array"
       /\ \A i \in 1..json[<<member>>][2] : IsString(json[<<member, i>>])

ControllersConform(json, kind) ==
    \/ json[<<"controller">>] = Null
    \/ /\ json[<<"controller">>][1] = "array"
       /\ \A i \in 1..json[<<"controller">>][2] :
              /\ IsString(json[<<"controller", i>>])
              /\ IdError(kind, json[<<"controller", i>>]) = "None"

MethodsConform(json, kind) ==
    \/ json[<<"verificationMethod">>] = Null
    \/ /\ json[<<"verificationMethod">>][1] = "array"
       /\ \A i \in 1..json[<<"verificationMethod">>][2] :
              MethodError(json, kind, i) = "None"

ServicesConform(json, network) ==
    \/ json[<<"service">>] = Null
    \/ /\ json[<<"service">>][1] = "array"
       /\ \A i \in 1..json[<<"service">>][2] : ServiceError(json, network, i) = "None"

Conforms(json, kind, network) ==
    /\ IsString(Id(json))
    /\ IdError(kind, Id(json)) = "None"
    /\ json[<<"context">>] # Null
    /\ StringsConform(json, "context")
    /\ ControllersConform(json, kind)
    /\ MethodsConform(json, kind)
    /\ StringsConform(json, "relationship")
    /\ ServicesConform(json, FieldsNetwork(json, kind, network))

LEMMA NullIsNoString == ~IsString(Null)
  BY DEF IsString, Null

LEMMA NoMemberError ==
    ASSUME NEW leaf, NEW parse
    PROVE  MemberError(leaf, parse) = "None" <=> IsString(leaf) /\ parse = "None"
  BY NullIsNoString DEF MemberError

LEMMA NoItemError ==
    ASSUME NEW leaf, NEW parse
    PROVE  ItemError(leaf, parse) = "None" <=> IsString(leaf) /\ parse = "None"
  BY DEF ItemError

LEMMA ArrayPaths == \A member \in ArrayMember : <<member>> \in Path
  BY DEF Path

LEMMA NoFieldsError ==
    ASSUME NEW json, WellFormed(json), NEW kind, NEW network
    PROVE  FieldsError(json, kind, network) = "None" <=> Conforms(json, kind, network)
  <1> DEFINE net         == FieldsNetwork(json, kind, network)
             contexts    == [i \in 1..Items |-> ItemError(json[<<"context", i>>], "None")]
             controllers == [i \in 1..Items |->
                                ItemError(json[<<"controller", i>>],
                                          IdError(kind, json[<<"controller", i>>]))]
             methods     == [i \in 1..Items |-> MethodError(json, kind, i)]
             relations   == [i \in 1..Items |->
                                ItemError(json[<<"relationship", i>>], "None")]
             services    == [i \in 1..Items |-> ServiceError(json, net, i)]
             idError     == MemberError(Id(json), IdError(kind, Id(json)))
  <1>1. \A member \in ArrayMember :
            json[<<member>>][1] = "array" => json[<<member>>][2] \in 0..Items
    BY ArrayPaths DEF WellFormed
  <1>2. /\ "context" \in ArrayMember /\ "controller" \in ArrayMember
        /\ "relationship" \in ArrayMember
        /\ "verificationMethod" \in ArrayMember /\ "service" \in ArrayMember
    BY DEF ArrayMember, StringArray, Keys
  <1>3. ArrayError(json[<<"context">>], contexts) = "None"
            <=> StringsConform(json, "context")
    <2>1. DOMAIN contexts = 1..Items
      OBVIOUS
    <2>2. \A i \in 1..Items :
              contexts[i] = "None" <=> IsString(json[<<"context", i>>])
      BY NoItemError
    <2> HIDE DEF contexts
    <2>3. json[<<"context">>][1] = "array" => json[<<"context">>][2] \in 0..Items
      BY <1>1, <1>2
    <2>4. ArrayError(json[<<"context">>], contexts) = "None" <=>
              \/ json[<<"context">>] = Null
              \/ /\ json[<<"context">>][1] = "array"
                 /\ \A i \in 1..json[<<"context">>][2] : contexts[i] = "None"
      BY <2>1, <2>3, NoArrayError
    <2>5. json[<<"context">>][1] = "array" =>
              \A i \in 1..json[<<"context">>][2] : i \in 1..Items
      BY <2>3, ItemsAssumption
    <2> QED BY <2>2, <2>4, <2>5 DEF StringsConform
  <1>4. ArrayError(json[<<"relationship">>], relations) = "None"
            <=> StringsConform(json, "relationship")
    <2>1. DOMAIN relations = 1..Items
      OBVIOUS
    <2>2. \A i \in 1..Items :
              relations[i] = "None" <=> IsString(json[<<"relationship", i>>])
      BY NoItemError
    <2> HIDE DEF relations
    <2>3. json[<<"relationship">>][1] = "array" => json[<<"relationship">>][2] \in 0..Items
      BY <1>1, <1>2
    <2>4. ArrayError(json[<<"relationship">>], relations) = "None" <=>
              \/ json[<<"relationship">>] = Null
              \/ /\ json[<<"relationship">>][1] = "array"
                 /\ \A i \in 1..json[<<"relationship">>][2] : relations[i] = "None"
      BY <2>1, <2>3, NoArrayError
    <2>5. json[<<"relationship">>][1] = "array" =>
              \A i \in 1..json[<<"relationship">>][2] : i \in 1..Items
      BY <2>3, ItemsAssumption
    <2> QED BY <2>2, <2>4, <2>5 DEF StringsConform
  <1>5. ArrayError(json[<<"controller">>], controllers) = "None"
            <=> ControllersConform(json, kind)
    <2>1. DOMAIN controllers = 1..Items
      OBVIOUS
    <2>2. \A i \in 1..Items :
              controllers[i] = "None" <=>
                  /\ IsString(json[<<"controller", i>>])
                  /\ IdError(kind, json[<<"controller", i>>]) = "None"
      BY NoItemError
    <2> HIDE DEF controllers
    <2>3. json[<<"controller">>][1] = "array" => json[<<"controller">>][2] \in 0..Items
      BY <1>1, <1>2
    <2>4. ArrayError(json[<<"controller">>], controllers) = "None" <=>
              \/ json[<<"controller">>] = Null
              \/ /\ json[<<"controller">>][1] = "array"
                 /\ \A i \in 1..json[<<"controller">>][2] : controllers[i] = "None"
      BY <2>1, <2>3, NoArrayError
    <2>5. json[<<"controller">>][1] = "array" =>
              \A i \in 1..json[<<"controller">>][2] : i \in 1..Items
      BY <2>3, ItemsAssumption
    <2> QED BY <2>2, <2>4, <2>5 DEF ControllersConform
  <1>6. ArrayError(json[<<"verificationMethod">>], methods) = "None"
            <=> MethodsConform(json, kind)
    <2>1. DOMAIN methods = 1..Items
      OBVIOUS
    <2>2. \A i \in 1..Items : methods[i] = MethodError(json, kind, i)
      OBVIOUS
    <2> HIDE DEF methods
    <2>3. json[<<"verificationMethod">>][1] = "array" => json[<<"verificationMethod">>][2] \in 0..Items
      BY <1>1, <1>2
    <2>4. ArrayError(json[<<"verificationMethod">>], methods) = "None" <=>
              \/ json[<<"verificationMethod">>] = Null
              \/ /\ json[<<"verificationMethod">>][1] = "array"
                 /\ \A i \in 1..json[<<"verificationMethod">>][2] : methods[i] = "None"
      BY <2>1, <2>3, NoArrayError
    <2>5. json[<<"verificationMethod">>][1] = "array" =>
              \A i \in 1..json[<<"verificationMethod">>][2] : i \in 1..Items
      BY <2>3, ItemsAssumption
    <2> QED BY <2>2, <2>4, <2>5 DEF MethodsConform
  <1>7. ArrayError(json[<<"service">>], services) = "None"
            <=> ServicesConform(json, net)
    <2>1. DOMAIN services = 1..Items
      OBVIOUS
    <2>2. \A i \in 1..Items : services[i] = ServiceError(json, net, i)
      OBVIOUS
    <2> HIDE DEF services
    <2>3. json[<<"service">>][1] = "array" => json[<<"service">>][2] \in 0..Items
      BY <1>1, <1>2
    <2>4. ArrayError(json[<<"service">>], services) = "None" <=>
              \/ json[<<"service">>] = Null
              \/ /\ json[<<"service">>][1] = "array"
                 /\ \A i \in 1..json[<<"service">>][2] : services[i] = "None"
      BY <2>1, <2>3, NoArrayError
    <2>5. json[<<"service">>][1] = "array" =>
              \A i \in 1..json[<<"service">>][2] : i \in 1..Items
      BY <2>3, ItemsAssumption
    <2> QED BY <2>2, <2>4, <2>5 DEF ServicesConform
  <1>8. FieldsError(json, kind, network) =
            IF idError # "None" THEN idError
            ELSE IF json[<<"context">>] = Null THEN "JsonMissingKey"
            ELSE FirstError(<<ArrayError(json[<<"context">>], contexts),
                              ArrayError(json[<<"controller">>], controllers),
                              ArrayError(json[<<"verificationMethod">>], methods),
                              ArrayError(json[<<"relationship">>], relations),
                              ArrayError(json[<<"service">>], services)>>)
    BY DEF FieldsError, Id
  <1>9. idError = "None" <=> IsString(Id(json)) /\ IdError(kind, Id(json)) = "None"
    BY NoMemberError
  <1> HIDE DEF contexts, controllers, methods, relations, services, idError, net
  <1>10. FieldsError(json, kind, network) = "None" <=>
             /\ idError = "None"
             /\ json[<<"context">>] # Null
             /\ ArrayError(json[<<"context">>], contexts) = "None"
             /\ ArrayError(json[<<"controller">>], controllers) = "None"
             /\ ArrayError(json[<<"verificationMethod">>], methods) = "None"
             /\ ArrayError(json[<<"relationship">>], relations) = "None"
             /\ ArrayError(json[<<"service">>], services) = "None"
    BY <1>8, NoErrorOfFive
  <1> QED BY <1>3, <1>4, <1>5, <1>6, <1>7, <1>9, <1>10 DEF Conforms, net

LEMMA NoMethodError ==
    ASSUME NEW json, NEW kind, NEW i
    PROVE  MethodError(json, kind, i) = "None" <=>
               /\ IsString(json[<<"verificationMethod", i, "id">>])
               /\ IsString(json[<<"verificationMethod", i, "controller">>])
               /\ IdError(kind, json[<<"verificationMethod", i, "controller">>]) = "None"
               /\ IsString(json[<<"verificationMethod", i, "publicKeyMultibase">>])
               /\ KeyError(json[<<"verificationMethod", i, "publicKeyMultibase">>]) = "None"
  BY NoErrorOfThree, NoMemberError DEF MethodError

LEMMA NoServiceError ==
    ASSUME NEW json, NEW network, NEW i
    PROVE  ServiceError(json, network, i) = "None" <=>
               /\ IsString(json[<<"service", i, "id">>])
               /\ IsString(json[<<"service", i, "type">>])
               /\ TypeError(json[<<"service", i, "type">>]) = "None"
               /\ IsString(json[<<"service", i, "serviceEndpoint">>])
               /\ EndpointError(json[<<"service", i, "serviceEndpoint">>], network) = "None"
  BY NoErrorOfThree, NoMemberError DEF ServiceError

-----------------------------------------------------------------------------
(* What into_initial leaves of a leaf *)
LEMMA LeafReplaced ==
    ASSUME NEW json, NEW text, NEW path \in Path
    PROVE  LET leaf == IntoInitial(json, text)[path]
           IN  /\ json[path] = Placeholder => leaf = Mention(text)
               /\ json[path] # Placeholder => leaf = json[path]
               /\ IsString(leaf) <=> IsString(json[path])
               /\ leaf = Null <=> json[path] = Null
               /\ leaf[1] = "array" <=> json[path][1] = "array"
               /\ leaf[1] = "array" => leaf = json[path]
  <1> DEFINE leaf == IntoInitial(json, text)[path]
  <1>1. leaf = IF json[path] = Placeholder THEN Mention(text) ELSE json[path]
    BY DEF IntoInitial, FindAndReplace
  <1>2. Placeholder[1] = "placeholder" /\ Mention(text)[1] = "did" /\ Null[1] = "null"
    BY DEF Placeholder, Mention, Null
  <1>3. IsString(Placeholder) /\ IsString(Mention(text))
    BY <1>2 DEF IsString
  <1>4. CASE json[path] = Placeholder
    BY <1>1, <1>2, <1>3, <1>4
  <1>5. CASE json[path] # Placeholder
    BY <1>1, <1>5
  <1> QED BY <1>4, <1>5

LEMMA IntoInitialWellFormed ==
    ASSUME NEW json, WellFormed(json), NEW text
    PROVE  WellFormed(IntoInitial(json, text))
  <1>1. \A member \in ArrayMember :
            IntoInitial(json, text)[<<member>>][1] = "array" =>
                IntoInitial(json, text)[<<member>>][2] \in 0..Items
    BY LeafReplaced, ArrayPaths DEF WellFormed
  <1>2. IntoInitial(json, text) = [path \in Path |-> IntoInitial(json, text)[path]]
    BY DEF IntoInitial, FindAndReplace
  <1> QED BY <1>1, <1>2 DEF WellFormed

LEMMA IdErrorReplaced ==
    ASSUME NEW json, NEW text, NEW path \in Path, ParseError(text) = "None",
           NamesADid(json[path])
    PROVE  IdError("Did", IntoInitial(json, text)[path]) = "None"
  <1>1. CASE json[path] = Placeholder
    <2>1. Mention(text)[1] = "did" /\ Mention(text)[2] = text
      BY DEF Mention
    <2> QED BY <1>1, <2>1, LeafReplaced DEF IdError
  <1>2. CASE json[path] # Placeholder
    BY <1>2, LeafReplaced DEF NamesADid
  <1> QED BY <1>1, <1>2

(* A placeholder is no key, no type of beacons and no address. *)
LEMMA PlaceholderIsNothingElse ==
    ASSUME NEW network
    PROVE  /\ KeyError(Placeholder) # "None"
           /\ TypeError(Placeholder) # "None"
           /\ EndpointError(Placeholder, network) # "None"
  <1>1. Placeholder[1] = "placeholder"
    BY DEF Placeholder
  <1>2. \A ty : Placeholder # TypeName(ty)
    <2>1. \A ty : TypeName(ty)[1] = "type"
      BY DEF TypeName
    <2> QED BY <1>1, <2>1
  <1> QED BY <1>1, <1>2 DEF KeyError, TypeError, EndpointError

LEMMA StringsReplaced ==
    ASSUME NEW json, WellFormed(json), NEW text,
           NEW member \in {"context", "relationship"}, StringsConform(json, member)
    PROVE  StringsConform(IntoInitial(json, text), member)
  <1>1. /\ <<member>> \in Path
        /\ json[<<member>>][1] = "array" => json[<<member>>][2] \in 0..Items
    BY ArrayPaths DEF ArrayMember, StringArray, WellFormed
  <1>2. CASE json[<<member>>] = Null
    BY <1>1, <1>2, LeafReplaced DEF StringsConform
  <1>3. CASE json[<<member>>] # Null
    <2>1. /\ json[<<member>>][1] = "array"
          /\ IntoInitial(json, text)[<<member>>] = json[<<member>>]
      BY <1>1, <1>3, LeafReplaced DEF StringsConform
    <2>2. ASSUME NEW i \in 1..json[<<member>>][2]
          PROVE  IsString(IntoInitial(json, text)[<<member, i>>])
      <3>1. i \in 1..Items
        BY <1>1, <2>1, ItemsAssumption
      <3>2. <<member, i>> \in Path
        BY <3>1 DEF Path, StringArray
      <3>3. IsString(json[<<member, i>>])
        BY <1>3 DEF StringsConform
      <3> QED BY <3>2, <3>3, LeafReplaced
    <2> QED BY <2>1, <2>2 DEF StringsConform
  <1> QED BY <1>2, <1>3

LEMMA ControllersReplaced ==
    ASSUME NEW json, WellFormed(json), NEW text, ParseError(text) = "None",
           ControllersConform(json, "String"),
           \A path \in DidPaths : IsString(json[path]) => NamesADid(json[path])
    PROVE  ControllersConform(IntoInitial(json, text), "Did")
  <1>1. /\ <<"controller">> \in Path
        /\ json[<<"controller">>][1] = "array" => json[<<"controller">>][2] \in 0..Items
    BY ArrayPaths DEF ArrayMember, StringArray, WellFormed
  <1>2. CASE json[<<"controller">>] = Null
    BY <1>1, <1>2, LeafReplaced DEF ControllersConform
  <1>3. CASE json[<<"controller">>] # Null
    <2>1. /\ json[<<"controller">>][1] = "array"
          /\ IntoInitial(json, text)[<<"controller">>] = json[<<"controller">>]
      BY <1>1, <1>3, LeafReplaced DEF ControllersConform
    <2>2. ASSUME NEW i \in 1..json[<<"controller">>][2]
          PROVE  /\ IsString(IntoInitial(json, text)[<<"controller", i>>])
                 /\ IdError("Did", IntoInitial(json, text)[<<"controller", i>>]) = "None"
      <3>1. i \in 1..Items
        BY <1>1, <2>1, ItemsAssumption
      <3>2. <<"controller", i>> \in Path /\ <<"controller", i>> \in DidPaths
        BY <3>1 DEF Path, StringArray, DidPaths
      <3>3. IsString(json[<<"controller", i>>])
        BY <1>3 DEF ControllersConform
      <3> QED BY <3>2, <3>3, LeafReplaced, IdErrorReplaced
    <2> QED BY <2>1, <2>2 DEF ControllersConform
  <1> QED BY <1>2, <1>3

LEMMA MethodsReplaced ==
    ASSUME NEW json, WellFormed(json), NEW text, ParseError(text) = "None",
           MethodsConform(json, "String"),
           \A path \in DidPaths : IsString(json[path]) => NamesADid(json[path])
    PROVE  MethodsConform(IntoInitial(json, text), "Did")
  <1> DEFINE member == <<"verificationMethod">>
  <1>1. /\ member \in Path
        /\ json[member][1] = "array" => json[member][2] \in 0..Items
    BY ArrayPaths DEF ArrayMember, Keys, WellFormed
  <1>2. CASE json[member] = Null
    BY <1>1, <1>2, LeafReplaced DEF MethodsConform
  <1>3. CASE json[member] # Null
    <2>1. json[member][1] = "array" /\ IntoInitial(json, text)[member] = json[member]
      BY <1>1, <1>3, LeafReplaced DEF MethodsConform
    <2>2. ASSUME NEW i \in 1..json[member][2]
          PROVE  MethodError(IntoInitial(json, text), "Did", i) = "None"
      <3> DEFINE At(key) == <<"verificationMethod", i, key>>
      <3>1. i \in 1..Items
        BY <1>1, <2>1, ItemsAssumption
      <3>2. /\ At("id") \in Path
            /\ At("controller") \in Path
            /\ At("controller") \in DidPaths
            /\ At("publicKeyMultibase") \in Path
        BY <3>1 DEF Path, Keys, DidPaths
      <3>3. /\ IsString(json[At("id")])
            /\ IsString(json[At("controller")])
            /\ IsString(json[At("publicKeyMultibase")])
            /\ KeyError(json[At("publicKeyMultibase")]) = "None"
        BY <1>3, NoMethodError DEF MethodsConform
      <3>4. json[At("publicKeyMultibase")] # Placeholder
        BY <3>3, PlaceholderIsNothingElse
      <3>5. IntoInitial(json, text)[At("publicKeyMultibase")]
                = json[At("publicKeyMultibase")]
        BY <3>2, <3>4, LeafReplaced
      <3>6. /\ IsString(IntoInitial(json, text)[At("id")])
            /\ IsString(IntoInitial(json, text)[At("controller")])
        BY <3>2, <3>3, LeafReplaced
      <3>7. IdError("Did", IntoInitial(json, text)[At("controller")]) = "None"
        BY <3>2, <3>3, IdErrorReplaced
      <3> QED BY <3>3, <3>5, <3>6, <3>7, NoMethodError
    <2> QED BY <2>1, <2>2 DEF MethodsConform
  <1> QED BY <1>2, <1>3

(* Services conform on any network the addresses are read for alike. *)
LEMMA ServicesReplaced ==
    ASSUME NEW json, WellFormed(json), NEW text, NEW network, NEW own,
           ServicesConform(json, network),
           BitcoinNetwork(network) # "None" => own = network
    PROVE  ServicesConform(IntoInitial(json, text), own)
  <1> DEFINE member == <<"service">>
  <1>1. /\ member \in Path
        /\ json[member][1] = "array" => json[member][2] \in 0..Items
    BY ArrayPaths DEF ArrayMember, Keys, WellFormed
  <1>2. CASE json[member] = Null
    BY <1>1, <1>2, LeafReplaced DEF ServicesConform
  <1>3. CASE json[member] # Null
    <2>1. json[member][1] = "array" /\ IntoInitial(json, text)[member] = json[member]
      BY <1>1, <1>3, LeafReplaced DEF ServicesConform
    <2>2. ASSUME NEW i \in 1..json[member][2]
          PROVE  ServiceError(IntoInitial(json, text), own, i) = "None"
      <3> DEFINE At(key) == <<"service", i, key>>
      <3>1. i \in 1..Items
        BY <1>1, <2>1, ItemsAssumption
      <3>2. /\ At("id") \in Path
            /\ At("type") \in Path
            /\ At("serviceEndpoint") \in Path
        BY <3>1 DEF Path, Keys
      <3>3. /\ IsString(json[At("id")])
            /\ IsString(json[At("type")])
            /\ TypeError(json[At("type")]) = "None"
            /\ IsString(json[At("serviceEndpoint")])
            /\ EndpointError(json[At("serviceEndpoint")], network) = "None"
        BY <1>3, NoServiceError DEF ServicesConform
      <3>4. own = network
        BY <3>3 DEF EndpointError
      <3>5. json[At("type")] # Placeholder /\ json[At("serviceEndpoint")] # Placeholder
        BY <3>3, PlaceholderIsNothingElse
      <3>6. /\ IntoInitial(json, text)[At("type")] = json[At("type")]
            /\ IntoInitial(json, text)[At("serviceEndpoint")]
                   = json[At("serviceEndpoint")]
        BY <3>2, <3>5, LeafReplaced
      <3>7. IsString(IntoInitial(json, text)[At("id")])
        BY <3>2, <3>3, LeafReplaced
      <3> QED BY <3>3, <3>4, <3>6, <3>7, NoServiceError
    <2> QED BY <2>1, <2>2 DEF ServicesConform
  <1> QED BY <1>2, <1>3

(* A draft that names a DID or the placeholder wherever a DID is asked for *)
(* conforms as an initial document once the DID is put in.                 *)
LEMMA IntoInitialConforms ==
    ASSUME NEW json, WellFormed(json), NEW text, ParseError(text) = "None",
           NEW network, IntermediateError(json, network) = "None",
           Id(json) = Placeholder,
           \A path \in DidPaths : IsString(json[path]) => NamesADid(json[path]),
           BitcoinNetwork(network) # "None" => ParsedNetwork(text) = network
    PROVE  InitialError(IntoInitial(json, text)) = "None"
  <1> DEFINE initial == IntoInitial(json, text)
  <1>1. Conforms(json, "String", network)
    BY NoFieldsError DEF IntermediateError
  <1>2. FieldsNetwork(json, "String", network) = network
    BY DEF FieldsNetwork
  <1>3. Id(initial) = Mention(text)
    BY IdIsReplaced
  <1>4. Mention(text)[1] = "did" /\ Mention(text)[2] = text
    BY DEF Mention
  <1>5. IsString(Id(initial)) /\ IdError("Did", Id(initial)) = "None"
    BY <1>3, <1>4 DEF IsString, IdError
  <1>6. FieldsNetwork(initial, "Did", Nothing) = ParsedNetwork(text)
    BY <1>3, <1>4 DEF FieldsNetwork, Id
  <1>7. initial[<<"context">>] # Null
    <2>1. <<"context">> \in Path
      BY ArrayPaths DEF ArrayMember, StringArray
    <2> QED BY <1>1, <2>1, LeafReplaced DEF Conforms
  <1>8. StringsConform(initial, "context") /\ StringsConform(initial, "relationship")
    BY <1>1, StringsReplaced DEF Conforms
  <1>9. ControllersConform(initial, "Did")
    BY <1>1, ControllersReplaced DEF Conforms
  <1>10. MethodsConform(initial, "Did")
    BY <1>1, MethodsReplaced DEF Conforms
  <1>11. ServicesConform(initial, ParsedNetwork(text))
    BY <1>1, <1>2, ServicesReplaced DEF Conforms
  <1>12. Conforms(initial, "Did", Nothing)
    BY <1>5, <1>6, <1>7, <1>8, <1>9, <1>10, <1>11 DEF Conforms
  <1> QED BY <1>12, IntoInitialWellFormed, NoFieldsError DEF InitialError

(* The text of a DID has room for every network with addresses.            *)
LEMMA BitcoinNetworksAreEncodable ==
    ASSUME NEW network \in Network, BitcoinNetwork(network) # "None"
    PROVE  Encodable(network)
  BY DEF BitcoinNetwork, Encodable

LEMMA ExternalDidParses ==
    ASSUME NEW json \in Draft, NEW network \in Networks
    PROVE  LET text == EncodeDid(ExternalComponents(json, network))
           IN  /\ ParseError(text) = "None"
               /\ BitcoinNetwork(network) # "None" => ParsedNetwork(text) = network
  <1> DEFINE components == ExternalComponents(json, network)
  <1>1. components.version = 1 /\ components.network = network
            /\ components.id_type = [hrp |-> "x", genesis |-> Hash(json)]
    BY DEF ExternalComponents
  <1>2. network \in Network /\ Hash(json) \in Genesis
            /\ GenesisLength[Hash(json)] = GenesisSize("x")
    BY DraftAssumption DEF GenesisSize
  <1>3. components.id_type \in IdType
    BY <1>1, <1>2 DEF IdType
  <1>4. ParseError(EncodeDid(components)) = "None"
    BY <1>1, <1>2, <1>3, EncodedAlwaysParses
  <1>5. ASSUME BitcoinNetwork(network) # "None"
        PROVE  ParsedNetwork(EncodeDid(components)) = network
    <2>1. components \in DidComponents
      BY <1>2, <1>3 DEF ExternalComponents, DidComponents, DidVersion
    <2>2. ParsedComponents(EncodeDid(components)) = components
      BY <1>1, <1>2, <1>5, <2>1, BitcoinNetworksAreEncodable, EncodedParses
    <2> QED BY <1>1, <2>2 DEF ParsedComponents
  <1> QED BY <1>4, <1>5

(* On the network a draft was parsed for, into_initial does not panic,     *)
(* however long its arrays are and whatever stands in them.                *)
THEOREM OwnNetworkIsSafe == DocSpec => []OwnNetworkNeverPanics
  <1>1. DocInv => OwnNetworkNeverPanics
    <2> SUFFICES ASSUME DocInv,
                        created.verdict = "Panic",
                        FromPlaceholder,
                        \A path \in DidPaths :
                            IsString(created.from.json[path]) =>
                                NamesADid(created.from.json[path]),
                        created.network = created.from.network
                 PROVE  FALSE
      BY DEF OwnNetworkNeverPanics
    <2> DEFINE json    == created.from.json
               network == created.from.network
               text    == EncodeDid(ExternalComponents(json, network))
    <2>1. created # NoCreated
      BY DEF NoCreated
    <2>2. /\ json \in Draft
          /\ network \in Networks
          /\ IntermediateError(json, network) = "None"
          /\ created.json = IntoInitial(json, text)
          /\ InitialError(created.json) # "None"
      BY <2>1 DEF DocInv, CreatedOrigin, DidFrom
    <2>3. ParseError(text) = "None"
              /\ (BitcoinNetwork(network) # "None" => ParsedNetwork(text) = network)
      BY <2>2, ExternalDidParses
    <2>4. WellFormed(json)
      BY <2>2, DraftAssumption
    <2> QED BY <2>2, <2>3, <2>4, IntoInitialConforms DEF FromPlaceholder
  <1> QED BY <1>1, DocInvariant, PTL

-----------------------------------------------------------------------------
(* The DIDs of keys: their texts parse, and to their own network wherever  *)
(* there are addresses.                                                    *)
LEMMA KeyDid ==
    ASSUME NEW did_of, IsKeyDid(did_of)
    PROVE  /\ did_of.components.id_type.hrp = "k"
           /\ did_of.components.id_type.genesis \in Genesis
           /\ did_of.components.network \in Network
           /\ ParseError(did_of.encoded) = "None"
           /\ BitcoinNetwork(did_of.components.network) # "None" =>
                  ParsedNetwork(did_of.encoded) = did_of.components.network
  <1>1. PICK components \in KeyComponents :
            did_of \in {DidFrom(components), DidOf(EncodeDid(components))}
    BY DEF IsKeyDid
  <1> DEFINE text == EncodeDid(components)
  <1>2. /\ components \in DidComponents
        /\ components.version = 1
        /\ components.network \in Network
        /\ components.id_type \in IdType
        /\ components.id_type.hrp = "k"
        /\ components.id_type.genesis \in Genesis
    BY KeyAssumption DEF DidComponents, DidVersion, IdType
  <1>3. ParseError(text) = "None"
    BY <1>2, EncodedAlwaysParses
  <1>4. CASE did_of = DidFrom(components)
    <2>1. did_of.components = components /\ did_of.encoded = text
      BY <1>4 DEF DidFrom
    <2>2. ASSUME BitcoinNetwork(components.network) # "None"
          PROVE  ParsedNetwork(text) = components.network
      <3>1. ParsedComponents(text) = components
        BY <1>2, <2>2, BitcoinNetworksAreEncodable, EncodedParses
      <3> QED BY <3>1 DEF ParsedComponents
    <2> QED BY <1>2, <1>3, <2>1, <2>2
  <1>5. CASE did_of = DidOf(text)
    <2>1. /\ did_of.encoded = text
          /\ did_of.components.network = ParsedNetwork(text)
          /\ did_of.components.id_type.hrp = text.hrp
          /\ did_of.components.id_type.genesis = text.data[2]
      BY <1>5 DEF DidOf, ParsedComponents
    <2>2. text.hrp = "k" /\ text.data[2] = components.id_type.genesis
      BY <1>2 DEF EncodeDid
    <2>3. ParsedNetwork(text) \in Network
      <3>1. NetworkNibble(components.network) \in 0..15
        <4>1. NetworkNumber(components.network) \in Byte
          BY <1>2, NumberIsAByte
        <4> QED BY <4>1 DEF NetworkNibble, Byte
      <3>2. VersionNibble(components.version) = 0
        BY <1>2 DEF VersionNibble
      <3>3. text.data[1] = VersionNibble(components.version) * 16
                               + NetworkNibble(components.network)
        BY DEF EncodeDid
      <3>4. text.data[1] % 16 \in 0..15
        BY <3>1, <3>2, <3>3
      <3> QED BY <3>4, NibbleWrittenBack DEF ParsedNetwork
    <2> QED BY <1>2, <1>3, <2>1, <2>2, <2>3
  <1> QED BY <1>1, <1>4, <1>5

(* A key reads back from the Multikey made of it.                          *)
LEMMA MultikeyReadsBack ==
    ASSUME NEW point \in Point
    PROVE  /\ MultikeyError(ToMultikey(point)) = "None"
           /\ FromMultikey(ToMultikey(point)) = point
  <1> DEFINE text == ToMultikey(point)
             data == <<MULTIKEY_PREFIX, Compressed[point]>>
  <1>1. text.multibase = "z" /\ text.base58 = TRUE /\ text.data = data
    BY DEF ToMultikey
  <1>2. data # <<>> /\ data[1] = MULTIKEY_PREFIX /\ data[2] = Compressed[point]
    OBVIOUS
  <1>3. PointOf[Compressed[point]] = point /\ point # NotAPoint
    BY PointAssumption
  <1> QED BY <1>1, <1>2, <1>3 DEF MultikeyError, FromMultikey

LEMMA JsonOfMember ==
    ASSUME NEW doc, NEW member \in ArrayMember
    PROVE  JsonOf(doc)[<<member>>] = Array(Len(doc[member]))
  <1>1. <<member>> \in Path
    BY ArrayPaths
  <1>2. <<member>> # <<"id">> /\ Len(<<member>>) = 1 /\ <<member>>[1] = member
    BY DEF ArrayMember, StringArray, Keys
  <1> QED BY <1>1, <1>2 DEF JsonOf

LEMMA JsonOfId == ASSUME NEW doc PROVE JsonOf(doc)[<<"id">>] = doc.id
  BY DEF JsonOf, Path

LEMMA JsonOfItem ==
    ASSUME NEW doc, NEW member \in StringArray, NEW i \in 1..Items
    PROVE  JsonOf(doc)[<<member, i>>] =
               IF i > Len(doc[member]) THEN Null ELSE doc[member][i]
  <1> DEFINE path == <<member, i>>
  <1>1. path \in Path
    <2>1. path \in StringArray \X (1..Items)
      OBVIOUS
    <2> QED BY <2>1 DEF Path
  <1>2. path # <<"id">> /\ Len(path) = 2 /\ path[1] = member /\ path[2] = i
    OBVIOUS
  <1> QED BY <1>1, <1>2 DEF JsonOf

LEMMA JsonOfKey ==
    ASSUME NEW doc, NEW member, NEW key, NEW i \in 1..Items,
           <<member, i, key>> \in Path
    PROVE  JsonOf(doc)[<<member, i, key>>] =
               IF i > Len(doc[member]) THEN Null ELSE doc[member][i][key]
  <1> DEFINE path == <<member, i, key>>
  <1>1. /\ path # <<"id">> /\ Len(path) = 3
        /\ path[1] = member /\ path[2] = i /\ path[3] = key
    OBVIOUS
  <1>2. path \in Path
    OBVIOUS
  <1> HIDE DEF path
  <1>3. JsonOf(doc)[path] =
            IF path[2] > Len(doc[path[1]]) THEN Null
                                           ELSE doc[path[1]][path[2]][path[3]]
    BY <1>1, <1>2 DEF JsonOf
  <1>4. JsonOf(doc)[path] =
            IF i > Len(doc[member]) THEN Null ELSE doc[member][i][key]
    BY <1>1, <1>3
  <1> QED BY <1>4 DEF path

-----------------------------------------------------------------------------
(* What stands where in a generated document                               *)
LEMMA GeneratedLengths ==
    ASSUME NEW did_of
    PROVE  LET doc == GeneratedMembers(did_of)
           IN  /\ Len(doc["context"]) = 2
               /\ Len(doc["controller"]) = 1
               /\ Len(doc["verificationMethod"]) = 1
               /\ Len(doc["relationship"]) = 1
               /\ Len(doc["service"]) = 3
  BY DEF GeneratedMembers, GenerateBeacons

LEMMA GeneratedArrays ==
    ASSUME NEW did_of
    PROVE  LET json == DeterministicallyGenerate(did_of)
           IN  /\ json[<<"context">>] = Array(2)
               /\ json[<<"controller">>] = Array(1)
               /\ json[<<"verificationMethod">>] = Array(1)
               /\ json[<<"relationship">>] = Array(1)
               /\ json[<<"service">>] = Array(3)
  <1>1. /\ "context" \in ArrayMember /\ "controller" \in ArrayMember
        /\ "relationship" \in ArrayMember
        /\ "verificationMethod" \in ArrayMember /\ "service" \in ArrayMember
    BY DEF ArrayMember, StringArray, Keys
  <1> QED BY <1>1, GeneratedLengths, JsonOfMember DEF DeterministicallyGenerate

LEMMA GeneratedStrings ==
    ASSUME NEW did_of
    PROVE  LET json == DeterministicallyGenerate(did_of)
               text == Mention(did_of.encoded)
           IN  /\ Id(json) = text
               /\ json[<<"context", 1>>] = Plain
               /\ json[<<"context", 2>>] = Plain
               /\ json[<<"controller", 1>>] = text
               /\ json[<<"relationship", 1>>] = text
  <1> DEFINE doc == GeneratedMembers(did_of)
  <1>1. 1 \in 1..Items /\ 2 \in 1..Items
    BY RoomAssumption, ItemsAssumption
  <1>2. "context" \in StringArray /\ "controller" \in StringArray
            /\ "relationship" \in StringArray
    BY DEF StringArray
  <1>3. /\ doc["context"][1] = Plain /\ doc["context"][2] = Plain
        /\ doc["controller"][1] = Mention(did_of.encoded)
        /\ doc["relationship"][1] = Mention(did_of.encoded)
        /\ doc.id = Mention(did_of.encoded)
    BY DEF GeneratedMembers
  <1> HIDE DEF doc
  <1>4. DeterministicallyGenerate(did_of) = JsonOf(doc)
    BY DEF DeterministicallyGenerate, doc
  <1>5. Len(doc["context"]) = 2 /\ Len(doc["controller"]) = 1
            /\ Len(doc["relationship"]) = 1
    BY GeneratedLengths DEF doc
  <1>6. /\ JsonOf(doc)[<<"context", 1>>] = Plain
        /\ JsonOf(doc)[<<"context", 2>>] = Plain
        /\ JsonOf(doc)[<<"controller", 1>>] = Mention(did_of.encoded)
        /\ JsonOf(doc)[<<"relationship", 1>>] = Mention(did_of.encoded)
    BY <1>1, <1>2, <1>3, <1>5, JsonOfItem
  <1> QED BY <1>3, <1>4, <1>6, JsonOfId DEF Id

LEMMA GeneratedMethod ==
    ASSUME NEW did_of
    PROVE  LET json == DeterministicallyGenerate(did_of)
               text == Mention(did_of.encoded)
           IN  /\ json[<<"verificationMethod", 1, "id">>] = text
               /\ json[<<"verificationMethod", 1, "controller">>] = text
               /\ json[<<"verificationMethod", 1, "publicKeyMultibase">>] =
                      KeyText(ToMultikey(PublicKeyUnchecked(did_of)))
  <1> DEFINE doc == GeneratedMembers(did_of)
  <1>1. 1 \in 1..Items
    BY RoomAssumption, ItemsAssumption
  <1>2. /\ <<"verificationMethod", 1, "id">> \in Path
        /\ <<"verificationMethod", 1, "controller">> \in Path
        /\ <<"verificationMethod", 1, "publicKeyMultibase">> \in Path
    BY <1>1 DEF Path, Keys
  <1>3. /\ doc["verificationMethod"][1]["id"] = Mention(did_of.encoded)
        /\ doc["verificationMethod"][1]["controller"] = Mention(did_of.encoded)
        /\ doc["verificationMethod"][1]["publicKeyMultibase"] =
               KeyText(ToMultikey(PublicKeyUnchecked(did_of)))
    BY DEF GeneratedMembers
  <1> HIDE DEF doc
  <1>4. DeterministicallyGenerate(did_of) = JsonOf(doc)
    BY DEF DeterministicallyGenerate, doc
  <1>5. Len(doc["verificationMethod"]) = 1
    BY GeneratedLengths DEF doc
  <1> QED BY <1>1, <1>2, <1>3, <1>4, <1>5, JsonOfKey

LEMMA GeneratedService ==
    ASSUME NEW did_of, NEW i \in 1..3
    PROVE  LET json == DeterministicallyGenerate(did_of)
           IN  /\ json[<<"service", i, "id">>] = Mention(did_of.encoded)
               /\ json[<<"service", i, "type">>] = TypeName("SingletonBeacon")
               /\ json[<<"service", i, "serviceEndpoint">>] =
                      Endpoint(GenerateBeacons(did_of)[i])
  <1> DEFINE doc == GeneratedMembers(did_of)
  <1>1. i \in 1..Items
    BY RoomAssumption, ItemsAssumption
  <1>2. /\ <<"service", i, "id">> \in Path
        /\ <<"service", i, "type">> \in Path
        /\ <<"service", i, "serviceEndpoint">> \in Path
    BY <1>1 DEF Path, Keys
  <1>3. DOMAIN GenerateBeacons(did_of) = 1..3
    BY DEF GenerateBeacons
  <1>4. /\ doc["service"][i]["id"] = Mention(did_of.encoded)
        /\ doc["service"][i]["type"] = TypeName("SingletonBeacon")
        /\ doc["service"][i]["serviceEndpoint"] = Endpoint(GenerateBeacons(did_of)[i])
    BY <1>3 DEF GeneratedMembers
  <1> HIDE DEF doc
  <1>5. DeterministicallyGenerate(did_of) = JsonOf(doc)
    BY DEF DeterministicallyGenerate, doc
  <1>6. Len(doc["service"]) = 3
    BY GeneratedLengths DEF doc
  <1> QED BY <1>1, <1>2, <1>4, <1>5, <1>6, JsonOfKey

LEMMA GeneratedWellFormed ==
    ASSUME NEW did_of
    PROVE  WellFormed(DeterministicallyGenerate(did_of))
  <1> DEFINE json == DeterministicallyGenerate(did_of)
  <1>1. json = [path \in Path |-> json[path]]
    BY DEF DeterministicallyGenerate, JsonOf
  <1>2. \A n \in 1..3 : Array(n)[2] \in 0..Items
    BY RoomAssumption, ItemsAssumption DEF Array
  <1>3. \A member \in ArrayMember : \E n \in 1..3 : json[<<member>>] = Array(n)
    BY GeneratedArrays DEF ArrayMember, StringArray, Keys
  <1> QED BY <1>1, <1>2, <1>3 DEF WellFormed

(* The forms of the generated addresses are valid on the network they are  *)
(* made for.                                                               *)
LEMMA GeneratedAddress ==
    ASSUME NEW did_of, did_of.components.network \in Network,
           BitcoinNetwork(did_of.components.network) # "None", NEW i \in 1..3
    PROVE  EndpointError(Endpoint(GenerateBeacons(did_of)[i]),
                         did_of.components.network) = "None"
  <1> DEFINE network == BitcoinNetwork(did_of.components.network)
             address == GenerateBeacons(did_of)[i]
             leaf    == Endpoint(address)
  <1>1. network \in {"Bitcoin", "Testnet", "Signet", "Regtest"}
    <2>1. did_of.components.network[1] \in
              {"Mainnet", "Signet", "Regtest", "TestnetV3", "TestnetV4",
               "Mutinynet", "Custom"}
      BY DEF Network, NamedNetworks
    <2> QED BY <2>1 DEF BitcoinNetwork
  <1>2. address.form \in {LegacyForm(network), SegwitForm(network)}
    BY DEF GenerateBeacons
  <1>3. LegacyForm(network) \in DOMAIN AddressForms
            /\ network \in AddressForms[LegacyForm(network)]
    BY <1>1 DEF LegacyForm, AddressForms
  <1>4. SegwitForm(network) \in DOMAIN AddressForms
            /\ network \in AddressForms[SegwitForm(network)]
    BY <1>1 DEF SegwitForm, AddressForms
  <1>5. leaf[1] = "bip21" /\ leaf[2] = address
    BY DEF Endpoint
  <1> HIDE DEF network, address, leaf
  <1>6. address.form \in DOMAIN AddressForms /\ network \in AddressForms[address.form]
    BY <1>2, <1>3, <1>4
  <1>7. EndpointError(leaf, did_of.components.network) = "None"
    BY <1>5, <1>6 DEF EndpointError, network
  <1> QED BY <1>7 DEF leaf, address

LEMMA GeneratedIsInitial ==
    ASSUME NEW did_of, IsKeyDid(did_of),
           BitcoinNetwork(did_of.components.network) # "None",
           PublicKeyUnchecked(did_of) # NotAPoint
    PROVE  InitialError(DeterministicallyGenerate(did_of)) = "None"
  <1> DEFINE json == DeterministicallyGenerate(did_of)
             text == Mention(did_of.encoded)
             key  == KeyText(ToMultikey(PublicKeyUnchecked(did_of)))
  <1>1. text[1] = "did" /\ text[2] = did_of.encoded
    BY DEF Mention
  <1>2. IsString(text) /\ IdError("Did", text) = "None"
    BY <1>1, KeyDid DEF IsString, IdError
  <1>3. Array(1)[1] = "array" /\ Array(2)[1] = "array" /\ Array(3)[1] = "array"
            /\ Array(1)[2] = 1 /\ Array(2)[2] = 2 /\ Array(3)[2] = 3
            /\ Array(2) # Null
    BY DEF Array, Null
  <1>4. IsString(Plain)
    BY DEF IsString, Plain
  <1>5. IsString(key) /\ KeyError(key) = "None"
    <2>1. PublicKeyUnchecked(did_of) \in Point
      BY KeyDid, PointAssumption DEF PublicKeyUnchecked
    <2>2. key[1] = "multikey" /\ key[2] = ToMultikey(PublicKeyUnchecked(did_of))
      BY DEF KeyText
    <2> QED BY <2>1, <2>2, MultikeyReadsBack DEF IsString, KeyError
  <1>6. FieldsNetwork(json, "Did", Nothing) = did_of.components.network
    BY <1>1, KeyDid, GeneratedStrings DEF FieldsNetwork, Id
  <1> HIDE DEF text, key
  <1>7. StringsConform(json, "context")
    <2>1. json[<<"context">>] = Array(2)
      BY GeneratedArrays
    <2>2. json[<<"context", 1>>] = Plain /\ json[<<"context", 2>>] = Plain
      BY GeneratedStrings
    <2>3. \A i \in 1..2 : IsString(json[<<"context", i>>])
      BY <1>4, <2>2
    <2> QED BY <1>3, <2>1, <2>3 DEF StringsConform
  <1>8. StringsConform(json, "relationship")
    <2>1. json[<<"relationship">>] = Array(1)
      BY GeneratedArrays
    <2>2. json[<<"relationship", 1>>] = text
      BY GeneratedStrings DEF text
    <2>3. \A i \in 1..1 : IsString(json[<<"relationship", i>>])
      BY <1>2, <2>2
    <2> QED BY <1>3, <2>1, <2>3 DEF StringsConform
  <1>9. ControllersConform(json, "Did")
    <2>1. json[<<"controller">>] = Array(1)
      BY GeneratedArrays
    <2>2. json[<<"controller", 1>>] = text
      BY GeneratedStrings DEF text
    <2>3. \A i \in 1..1 : IsString(json[<<"controller", i>>])
              /\ IdError("Did", json[<<"controller", i>>]) = "None"
      BY <1>2, <2>2
    <2> QED BY <1>3, <2>1, <2>3 DEF ControllersConform
  <1>10. MethodsConform(json, "Did")
    <2>1. json[<<"verificationMethod">>] = Array(1)
      BY GeneratedArrays
    <2>2. /\ json[<<"verificationMethod", 1, "id">>] = text
          /\ json[<<"verificationMethod", 1, "controller">>] = text
          /\ json[<<"verificationMethod", 1, "publicKeyMultibase">>] = key
      BY GeneratedMethod DEF text, key
    <2>3. MethodError(json, "Did", 1) = "None"
      BY <1>2, <1>5, <2>2, NoMethodError
    <2> QED BY <1>3, <2>1, <2>3 DEF MethodsConform
  <1>11. ServicesConform(json, did_of.components.network)
    <2>1. json[<<"service">>] = Array(3)
      BY GeneratedArrays
    <2>2. ASSUME NEW i \in 1..3
          PROVE  ServiceError(json, did_of.components.network, i) = "None"
      <3>1. /\ json[<<"service", i, "id">>] = text
            /\ json[<<"service", i, "type">>] = TypeName("SingletonBeacon")
            /\ json[<<"service", i, "serviceEndpoint">>] =
                   Endpoint(GenerateBeacons(did_of)[i])
        BY GeneratedService DEF text
      <3>2. IsString(TypeName("SingletonBeacon"))
                /\ IsString(Endpoint(GenerateBeacons(did_of)[i]))
        BY DEF IsString, TypeName, Endpoint
      <3>3. TypeError(TypeName("SingletonBeacon")) = "None"
        BY DEF TypeError
      <3>4. EndpointError(Endpoint(GenerateBeacons(did_of)[i]),
                          did_of.components.network) = "None"
        BY KeyDid, GeneratedAddress
      <3> QED BY <1>2, <3>1, <3>2, <3>3, <3>4, NoServiceError
    <2> QED BY <1>3, <2>1, <2>2 DEF ServicesConform
  <1>12. Conforms(json, "Did", Nothing)
    <2>1. Id(json) = text
      BY GeneratedStrings DEF text
    <2>2. json[<<"context">>] # Null
      BY <1>3, GeneratedArrays
    <2> QED BY <1>2, <1>6, <1>7, <1>8, <1>9, <1>10, <1>11, <2>1, <2>2 DEF Conforms
  <1> QED BY <1>12, GeneratedWellFormed, NoFieldsError DEF InitialError

(* The document generated for a usable key and network passes the checks,  *)
(* and its Multikey is that key.                                           *)
THEOREM GeneratedIsUsable == DocSpec => []GeneratedConforms
  <1>1. DocInv => GeneratedConforms
    <2> SUFFICES ASSUME DocInv,
                        read.verdict # "none",
                        read.did.components.id_type.hrp = "k",
                        BitcoinNetwork(read.did.components.network) # "None",
                        PublicKeyUnchecked(read.did) # NotAPoint
                 PROVE  /\ read.verdict = "None"
                        /\ FromMultikey(read.json[<<"verificationMethod", 1,
                                                    "publicKeyMultibase">>][2])
                               = PublicKeyUnchecked(read.did)
      BY DEF GeneratedConforms
    <2>1. read # NoRead
      BY DEF NoRead
    <2>2. IsKeyDid(read.did)
      BY <2>1 DEF DocInv, ReadOrigin
    <2>3. read.verdict = InitialError(DeterministicallyGenerate(read.did))
      BY <2>1 DEF DocInv, ReadOrigin, ReadVerdict
    <2>4. read.verdict = "None"
      BY <2>2, <2>3, GeneratedIsInitial
    <2>5. read.json = DeterministicallyGenerate(read.did)
      BY <2>1, <2>4 DEF DocInv, ReadOrigin
    <2>6. PublicKeyUnchecked(read.did) \in Point
      BY <2>2, KeyDid, PointAssumption DEF PublicKeyUnchecked
    <2>7. read.json[<<"verificationMethod", 1, "publicKeyMultibase">>]
              = KeyText(ToMultikey(PublicKeyUnchecked(read.did)))
      BY <2>5, GeneratedMethod
    <2>8. \A text : KeyText(text)[2] = text
      BY DEF KeyText
    <2> QED BY <2>4, <2>6, <2>7, <2>8, MultikeyReadsBack
  <1> QED BY <1>1, DocInvariant, PTL
=============================================================================
